---- MODULE Spec2Model ----
(***************************************************************************)
(* Model of the "frequently bought together" recommendation service        *)
(* (api_server.py): the rule table built from the CSV rows, the global     *)
(* candidate pool, the per-product constraint engine with its two backfill *)
(* phases, the /api/fbt aggregation, and the request threads that reload   *)
(* the rules and read the shared pool.                                     *)
(*                                                                         *)
(* Product ids are TLA+ strings; classification, brand extraction and the  *)
(* CSV cell parsing work on their characters as the Python code does.      *)
(* A Python dict (insertion ordered) is a sequence of [key, val] records.  *)
(***************************************************************************)
EXTENDS Integers, Sequences, FiniteSets, TLC

\* ------------------------------------------------------------------------
\* Strings
\* ------------------------------------------------------------------------

Char(s, i) == SubSeq(s, i, i)

\* Python: kw in text
Contains(text, kw) ==
    \E i \in 1..(Len(text) - Len(kw) + 1) : SubSeq(text, i, i + Len(kw) - 1) = kw

\* Python: text.index(c) for a single character c that occurs in text
IndexOf(text, c) ==
    CHOOSE i \in 1..Len(text) : Char(text, i) = c /\ \A j \in 1..(i - 1) : Char(text, j) # c

\* Python: c in text, for a single character c
HasChar(text, c) == \E i \in 1..Len(text) : Char(text, i) = c

UpperChars == "ABCDEFGHIJKLMNOPQRSTUVWXYZ"
LowerChars == "abcdefghijklmnopqrstuvwxyz"
DigitChars == "0123456789"

LowerChar(c) ==
    IF \E i \in 1..Len(UpperChars) : Char(UpperChars, i) = c
    THEN Char(LowerChars, CHOOSE i \in 1..Len(UpperChars) : Char(UpperChars, i) = c)
    ELSE c

RECURSIVE Lower(_)
\* Python: str.lower()
Lower(s) ==
    IF s = "" THEN ""
    ELSE IF Len(s) = 1 THEN LowerChar(s)
    ELSE Lower(SubSeq(s, 1, Len(s) \div 2)) \o Lower(SubSeq(s, Len(s) \div 2 + 1, Len(s)))

IsSpace(c) == c \in {" ", "\t"}

RECURSIVE LStrip(_)
LStrip(s) == IF s # "" /\ IsSpace(Char(s, 1)) THEN LStrip(SubSeq(s, 2, Len(s))) ELSE s

RECURSIVE RStrip(_)
RStrip(s) == IF s # "" /\ IsSpace(Char(s, Len(s))) THEN RStrip(SubSeq(s, 1, Len(s) - 1)) ELSE s

\* Python: str.strip()
Strip(s) == RStrip(LStrip(s))

RECURSIVE Split(_, _)
\* Python: text.split(sep) for a single character sep
Split(text, sep) ==
    IF HasChar(text, sep)
    THEN LET i == IndexOf(text, sep)
         IN  <<SubSeq(text, 1, i - 1)>> \o Split(SubSeq(text, i + 1, Len(text)), sep)
    ELSE <<text>>

\* Python: token.isdigit()
IsDigit(token) ==
    token # "" /\ \A i \in 1..Len(token) : \E d \in 1..Len(DigitChars) : Char(token, i) = Char(DigitChars, d)

\* Python: any(ch.isalpha() for ch in token), on lowercased text
HasAlpha(token) ==
    \E i \in 1..Len(token) : \E a \in 1..Len(LowerChars) :
        Char(token, i) \in {Char(LowerChars, a), Char(UpperChars, a)}

\* ------------------------------------------------------------------------
\* Sequences
\* ------------------------------------------------------------------------

Range(s) == {s[i] : i \in 1..Len(s)}

\* the items of s at the indices in keep, in order (a filtering comprehension)
KeepAt(s, keep) ==
    LET F[i \in 0..Len(s)] ==
            IF i = 0 THEN <<>> ELSE IF i \in keep THEN Append(F[i - 1], s[i]) ELSE F[i - 1]
    IN  F[Len(s)]

\* the least index in hits
First(hits) == CHOOSE i \in hits : \A j \in hits : i <= j

\* <<a1, a2>> <= <<b1, b2>> as Python compares tuples
TupleLessEq(a, b) == a[1] < b[1] \/ (a[1] = b[1] /\ a[2] <= b[2])

\* Python: sorted(items, key=...) with key[i] the key of items[i] -- stable:
\* an item goes after every item already placed whose key is not greater.
SortedByKey(items, key) ==
    LET Insert(done, i) ==
            \* done is sorted, so the entries not greater than key[i] are a prefix
            LET later == {p \in 1..Len(done) : ~TupleLessEq(key[done[p]], key[i])}
                n     == IF later = {} THEN Len(done) ELSE First(later) - 1
            IN  SubSeq(done, 1, n) \o <<i>> \o SubSeq(done, n + 1, Len(done))
        F[i \in 0..Len(items)] == IF i = 0 THEN <<>> ELSE Insert(F[i - 1], i)
    IN  [p \in 1..Len(items) |-> items[F[Len(items)][p]]]

\* ------------------------------------------------------------------------
\* Program constants
\* ------------------------------------------------------------------------

PER_PRODUCT_RECOMMENDATION_LIMIT == 3

\* PRIORITY_RANK.get(p, 99)
PRIORITY_RANK(p) ==
    CASE p = "Primary" -> 0
      [] p = "Secondary" -> 1
      [] p = "Tertiary" -> 2
      [] OTHER -> 99

PRODUCT_TYPE_RULES ==
    << [type |-> "helmet_accessory",
        keywords |-> <<"visor", "face-shield", "faceshield", "shield", "pinlock",
                       "cheekpad", "cheek-pad", "cheek pad">>],
       [type |-> "helmet",  keywords |-> <<"helmet">>],
       [type |-> "jacket",  keywords |-> <<"jacket", "coat", "parka">>],
       [type |-> "pants",   keywords |-> <<"pant", "trouser", "bibs">>],
       [type |-> "gloves",  keywords |-> <<"glove", "gauntlet">>],
       [type |-> "boots",   keywords |-> <<"boot", "shoe">>] >>

\* RUNTIME_COMPLEMENTARY_TYPES.get(source_type, [])
RUNTIME_COMPLEMENTARY_TYPES(source_type) ==
    CASE source_type = "pants"  -> <<"jacket", "gloves", "boots", "helmet">>
      [] source_type = "jacket" -> <<"pants", "gloves", "boots", "helmet">>
      [] source_type = "helmet" -> <<"helmet_accessory", "gloves", "jacket", "boots">>
      [] source_type = "gloves" -> <<"jacket", "pants", "helmet", "boots">>
      [] source_type = "boots"  -> <<"jacket", "pants", "gloves", "helmet">>
      [] OTHER -> <<>>

\* ------------------------------------------------------------------------
\* Product ids the inputs are drawn from
\* ------------------------------------------------------------------------

HELMET  == "alpinestars-supertech-r10-helmet"
PINLOCK == "pinlock-earplug-set-w-case"
JACKET  == "klim-badlands-pro-jacket"
PANTS   == "dainese-delta-4-leather-pants"
GLOVES  == "alpinestars-gp-pro-r4-gloves"
GLOVES2 == "klim-adventure-gtx-gloves"
BOOTS   == "alpinestars-tech-10-boots-2025"
OIL     == "motorex-gear-oil-10w30"

Slugs == {HELMET, PINLOCK, JACKET, PANTS, GLOVES, GLOVES2, BOOTS, OIL}

\* ------------------------------------------------------------------------
\* Classification and brand
\* ------------------------------------------------------------------------

_normalize_slug_text(value) == Lower(Strip(value))

_detect_product_type(slug) ==
    LET text == _normalize_slug_text(slug)
        hits == {i \in 1..Len(PRODUCT_TYPE_RULES) :
                    \E k \in 1..Len(PRODUCT_TYPE_RULES[i].keywords) :
                        Contains(text, PRODUCT_TYPE_RULES[i].keywords[k])}
    IN  IF hits # {} THEN PRODUCT_TYPE_RULES[First(hits)].type ELSE "unknown"

_extract_brand_token(slug) ==
    LET parts  == Split(_normalize_slug_text(slug), "-")
        tokens == KeepAt(parts, {i \in 1..Len(parts) : parts[i] # ""})
        brands == {i \in 1..Len(tokens) : ~IsDigit(tokens[i]) /\ HasAlpha(tokens[i])}
    IN  IF brands # {} THEN tokens[First(brands)] ELSE ""

\* _detect_product_type and _extract_brand_token, evaluated once for the
\* product ids above and looked up afterwards
TypeMemo  == [slug \in Slugs |-> _detect_product_type(slug)]
BrandMemo == [slug \in Slugs |-> _extract_brand_token(slug)]

type_of(slug) ==
    IF slug \in Slugs THEN TypeMemo[slug] ELSE _detect_product_type(slug)

brand_of(slug) ==
    IF slug \in Slugs THEN BrandMemo[slug] ELSE _extract_brand_token(slug)

_sort_by_priority(recommendations) ==
    SortedByKey(recommendations,
                [i \in 1..Len(recommendations) |->
                    <<PRIORITY_RANK(Strip(recommendations[i].priority)), 0>>])

\* ------------------------------------------------------------------------
\* Python dicts, in insertion order: sequences of [key, val]
\* ------------------------------------------------------------------------

DictKeys(d) == {d[i].key : i \in 1..Len(d)}

DictGet(d, k, default) ==
    IF k \in DictKeys(d) THEN d[CHOOSE i \in 1..Len(d) : d[i].key = k].val ELSE default

\* d[k] = v: a new key goes last, an existing key keeps its place
DictSet(d, k, v) ==
    IF k \in DictKeys(d)
    THEN [i \in 1..Len(d) |-> IF d[i].key = k THEN [key |-> k, val |-> v] ELSE d[i]]
    ELSE Append(d, [key |-> k, val |-> v])

\* ------------------------------------------------------------------------
\* Rule table: CSV rows -> explicit map and category rules
\* ------------------------------------------------------------------------

\* A CSV row is [pid, rid, label, type, priority]: the cells "Product ID",
\* "Recommended Product ID", "Label", "Type", "Priority" (an absent cell is "").

_parse_category_keywords(raw_value) ==
    LET text == Strip(raw_value)
    IN  IF text # "" /\ Char(text, 1) = "[" /\ Contains(text, "]")
        THEN LET inside == SubSeq(text, 2, IndexOf(text, "]") - 1)
                 split  == Split(inside, "|")
                 parts  == KeepAt(split, {i \in 1..Len(split) : Strip(split[i]) # ""})
             IN  [i \in 1..Len(parts) |-> Lower(Strip(parts[i]))]
        ELSE <<>>

_build_rules_from_reader(reader) ==
    LET Row(acc, row) ==
            LET product_id == Strip(row.pid)
                rec_id     == Strip(row.rid)
                label      == Strip(row.label)
                row_type   == Lower(Strip(IF row.type = "" THEN "Explicit" ELSE row.type))
                priority   == Strip(row.priority)
                rec        == [id |-> rec_id, label |-> label, priority |-> priority]
                keywords   == _parse_category_keywords(product_id)
            IN  IF product_id = "" \/ rec_id = "" THEN acc
                ELSE IF row_type = "category"
                THEN IF keywords = <<>> THEN acc
                     ELSE [acc EXCEPT !.category_rules =
                              DictSet(@, keywords, Append(DictGet(@, keywords, <<>>), rec))]
                ELSE [acc EXCEPT !.explicit_map =
                         DictSet(@, product_id, Append(DictGet(@, product_id, <<>>), rec))]
        F[i \in 0..Len(reader)] ==
            IF i = 0 THEN [explicit_map |-> <<>>, category_rules |-> <<>>]
            ELSE Row(F[i - 1], reader[i])
    IN  F[Len(reader)]

\* ------------------------------------------------------------------------
\* Global pool: the local `pool` that _refresh_global_rec_pool builds
\* ------------------------------------------------------------------------

\* variant: add_candidate without the tests of lines 211-214
add_candidate_unchecked(pool, id) ==
    LET rec_id   == Strip(id)
        rec_type == type_of(rec_id)
    IN  IF rec_id = "" THEN pool
        ELSE DictSet(pool, rec_type, Append(DictGet(pool, rec_type, <<>>), rec_id))

\* add_candidate, on the pool built so far
add_candidate(pool, id) ==
    LET rec_id   == Strip(id)
        rec_type == type_of(rec_id)
        ids      == DictGet(pool, rec_type, <<>>)
    IN  IF rec_id = "" \/ rec_type = "unknown" \/ rec_id \in Range(ids) THEN pool
        ELSE DictSet(pool, rec_type, Append(ids, rec_id))

\* the candidates in the order lines 218-227 visit them
PoolCandidates(explicit_map, category_rule_list) ==
    LET RecIds(d) ==
            LET F[i \in 0..Len(d)] ==
                    IF i = 0 THEN <<>>
                    ELSE F[i - 1] \o [j \in 1..Len(d[i].val) |-> d[i].val[j].id]
            IN  F[Len(d)]
    IN  RecIds(explicit_map)
          \o [i \in 1..Len(explicit_map) |-> explicit_map[i].key]
          \o RecIds(category_rule_list)

BuildPool(explicit_map, category_rule_list) ==
    LET ids == PoolCandidates(explicit_map, category_rule_list)
        F[i \in 0..Len(ids)] == IF i = 0 THEN <<>> ELSE add_candidate(F[i - 1], ids[i])
    IN  F[Len(ids)]

\* ------------------------------------------------------------------------
\* State
\* ------------------------------------------------------------------------

VARIABLES
    csv,                  \* the file at CSV_PATH: [exists, rows]
    _RULES_CACHE,         \* [explicit_map, category_rules, fetched_at, source, last_error]
    _GLOBAL_REC_BY_TYPE,  \* the shared pool: dict product type -> list of ids
    frame,                \* per request thread: its position and local variables
    validation,           \* a run of validate_csv: its position and local variables
    autofix,              \* a run of the auto-fixer's main: its position and local variables
    clock,                \* time.time(), in ticks
    remote,               \* CSV_URL and what a GET of it meets: [CSV_URL, up, rows]
    watch,                \* a run of the watcher's main: its position and local variables
    csv_stat              \* what Path.stat() reports for the watched file, None if missing

\* what the server's local mode and the command-line tools leave alone
outside == <<clock, remote, watch, csv_stat>>

vars == <<csv, _RULES_CACHE, _GLOBAL_REC_BY_TYPE, frame, validation, autofix, outside>>

\* the command-line tool is not running
NoRun == [pc |-> "off"]

NoFile == [exists |-> FALSE, rows |-> <<>>]
File(rows) == [exists |-> TRUE, rows |-> rows]
None == "<None>"

\* RECOMMENDATIONS_CSV_URL is unset (line 27): local mode
NoRemote == [CSV_URL |-> "", up |-> FALSE, rows |-> <<>>]

\* the settings and the world that only the remote mode and the watcher look at
Untouched ==
    /\ clock = 0
    /\ remote = NoRemote
    /\ watch = NoRun
    /\ csv_stat = None

\* ------------------------------------------------------------------------
\* Constraint engine: picking from the shared pool
\* ------------------------------------------------------------------------

\* the id at the first index in hits, or "" (a loop that returns its first hit)
FirstId(ids, hits) == IF hits # {} THEN ids[First(hits)] ELSE ""

\* variant: the scan of lines 253-260 without the brand check of lines 256-259
pick_global_candidate_any_brand(source_type, source_brand, rec_type, selected_ids) ==
    LET candidates == DictGet(_GLOBAL_REC_BY_TYPE, rec_type, <<>>)
    IN  FirstId(candidates, {i \in 1..Len(candidates) : candidates[i] \notin selected_ids})

\* the id at the last index in hits, or ""
LastId(ids, hits) == IF hits # {} THEN ids[CHOOSE i \in hits : \A j \in hits : j <= i] ELSE ""

\* variant: lines 234-261 with each scan going on to the last candidate it accepts
pick_global_candidate_last_match(source_type, source_brand, rec_type, selected_ids) ==
    LET candidates == DictGet(_GLOBAL_REC_BY_TYPE, rec_type, <<>>)
        free       == {i \in 1..Len(candidates) : candidates[i] \notin selected_ids}
        same_brand == LastId(candidates, {i \in free :
                          source_brand # "" /\ brand_of(candidates[i]) = source_brand})
        fallback   == LastId(candidates, {i \in free :
                          brand_of(candidates[i]) = "alpinestars"})
        generic    == LastId(candidates, {i \in free :
                          ~ ( /\ source_type \in {"jacket", "pants"}
                              /\ rec_type \in {"jacket", "pants", "gloves"}
                              /\ source_brand # ""
                              /\ brand_of(candidates[i]) # ""
                              /\ source_brand # brand_of(candidates[i]) )})
    IN  IF source_type \in {"jacket", "pants"} /\ rec_type = "gloves" /\ same_brand # ""
        THEN same_brand
        ELSE IF source_type \in {"jacket", "pants"} /\ rec_type = "gloves" /\ fallback # ""
        THEN fallback
        ELSE generic

\* variant: lines 234-261 with the scan of lines 246-251 before that of lines 240-245
pick_global_candidate_fallback_first(source_type, source_brand, rec_type, selected_ids) ==
    LET candidates == DictGet(_GLOBAL_REC_BY_TYPE, rec_type, <<>>)
        free       == {i \in 1..Len(candidates) : candidates[i] \notin selected_ids}
        same_brand == FirstId(candidates, {i \in free :
                          source_brand # "" /\ brand_of(candidates[i]) = source_brand})
        fallback   == FirstId(candidates, {i \in free :
                          brand_of(candidates[i]) = "alpinestars"})
        generic    == FirstId(candidates, {i \in free :
                          ~ ( /\ source_type \in {"jacket", "pants"}
                              /\ rec_type \in {"jacket", "pants", "gloves"}
                              /\ source_brand # ""
                              /\ brand_of(candidates[i]) # ""
                              /\ source_brand # brand_of(candidates[i]) )})
    IN  IF source_type \in {"jacket", "pants"} /\ rec_type = "gloves" /\ fallback # ""
        THEN fallback
        ELSE IF source_type \in {"jacket", "pants"} /\ rec_type = "gloves" /\ same_brand # ""
        THEN same_brand
        ELSE generic

_pick_global_candidate(source_type, source_brand, rec_type, selected_ids) ==
    LET candidates == DictGet(_GLOBAL_REC_BY_TYPE, rec_type, <<>>)
        free       == {i \in 1..Len(candidates) : candidates[i] \notin selected_ids}
        same_brand == FirstId(candidates, {i \in free :
                          source_brand # "" /\ brand_of(candidates[i]) = source_brand})
        fallback   == FirstId(candidates, {i \in free :
                          brand_of(candidates[i]) = "alpinestars"})
        generic    == FirstId(candidates, {i \in free :
                          ~ ( /\ source_type \in {"jacket", "pants"}
                              /\ rec_type \in {"jacket", "pants", "gloves"}
                              /\ source_brand # ""
                              /\ brand_of(candidates[i]) # ""
                              /\ source_brand # brand_of(candidates[i]) )})
    IN  IF source_type \in {"jacket", "pants"} /\ rec_type = "gloves" /\ same_brand # ""
        THEN same_brand
        ELSE IF source_type \in {"jacket", "pants"} /\ rec_type = "gloves" /\ fallback # ""
        THEN fallback
        ELSE generic

\* the first candidate of one pool entry that _pick_global_candidate_any accepts
pick_of_type(source_type, source_brand, selected_ids, rec_type, candidates) ==
    FirstId(candidates, {i \in 1..Len(candidates) :
        /\ candidates[i] \notin selected_ids
        /\ ~ ( /\ source_type \in {"jacket", "pants"}
               /\ rec_type \in {"jacket", "pants", "gloves"}
               /\ source_brand # ""
               /\ brand_of(candidates[i]) # ""
               /\ source_brand # brand_of(candidates[i]) )})

\* returns <<rid, rec_type>>
_pick_global_candidate_any(source_type, source_brand, selected_ids, used_types) ==
    LET items == _GLOBAL_REC_BY_TYPE
        hits  == {i \in 1..Len(items) :
                     /\ items[i].key \notin used_types
                     /\ pick_of_type(source_type, source_brand, selected_ids,
                                     items[i].key, items[i].val) # ""}
    IN  IF hits # {}
        THEN <<pick_of_type(source_type, source_brand, selected_ids,
                            items[First(hits)].key, items[First(hits)].val),
               items[First(hits)].key>>
        ELSE <<"", "">>

\* ------------------------------------------------------------------------
\* Constraint engine: _apply_recommendation_constraints on a thread's frame
\* ------------------------------------------------------------------------

\* lines 287-301: sort by priority, drop empty ids and brand conflicts
filtered_recommendations(product_id, recommendations) ==
    LET source_type  == type_of(product_id)
        source_brand == brand_of(product_id)
        ordered      == _sort_by_priority(recommendations)
    IN  KeepAt(ordered, {i \in 1..Len(ordered) :
            LET rid      == Strip(ordered[i].id)
                rec_type == type_of(rid)
            IN  /\ rid # ""
                /\ ~ ( /\ source_type \in {"jacket", "pants"}
                       /\ rec_type \in {"jacket", "pants", "gloves"}
                       /\ source_brand # ""
                       /\ brand_of(rid) # ""
                       /\ source_brand # brand_of(rid) )})

\* variant: the loop of lines 307-318 without the skips of lines 309-313
greedy_select_no_skip(filtered) ==
    LET n == IF Len(filtered) < PER_PRODUCT_RECOMMENDATION_LIMIT
             THEN Len(filtered) ELSE PER_PRODUCT_RECOMMENDATION_LIMIT
    IN  [selected     |-> SubSeq(filtered, 1, n),
         selected_ids |-> {filtered[i].id : i \in 1..n},
         seen_types   |-> {type_of(filtered[i].id) : i \in 1..n}]

\* variant: the loop of lines 307-318 without the type test of lines 311-313
greedy_select_any_type(filtered) ==
    LET Take(acc, rec) ==
            IF \/ Len(acc.selected) >= PER_PRODUCT_RECOMMENDATION_LIMIT
               \/ rec.id = ""
               \/ rec.id \in acc.selected_ids
            THEN acc
            ELSE [selected     |-> Append(acc.selected, rec),
                  selected_ids |-> acc.selected_ids \cup {rec.id},
                  seen_types   |-> acc.seen_types \cup {type_of(rec.id)}]
        F[i \in 0..Len(filtered)] ==
            IF i = 0 THEN [selected |-> <<>>, selected_ids |-> {}, seen_types |-> {}]
            ELSE Take(F[i - 1], filtered[i])
    IN  F[Len(filtered)]

\* lines 303-318: one entry per type, in order, until the limit
greedy_select(filtered) ==
    LET Take(acc, rec) ==
            IF \/ Len(acc.selected) >= PER_PRODUCT_RECOMMENDATION_LIMIT
               \/ rec.id = ""
               \/ rec.id \in acc.selected_ids
               \/ type_of(rec.id) \in acc.seen_types
            THEN acc
            ELSE [selected     |-> Append(acc.selected, rec),
                  selected_ids |-> acc.selected_ids \cup {rec.id},
                  seen_types   |-> acc.seen_types \cup {type_of(rec.id)}]
        F[i \in 0..Len(filtered)] ==
            IF i = 0 THEN [selected |-> <<>>, selected_ids |-> {}, seen_types |-> {}]
            ELSE Take(F[i - 1], filtered[i])
    IN  F[Len(filtered)]

\* the entry a backfill phase appends (lines 329, 340)
BackfillEntry(rid) == [id |-> rid, label |-> "Recommended item", priority |-> "Tertiary"]

\* variant: lines 285-321 with recommendations.sort(...) in place of sorted(...)
greedy_phase_sorting_in_place(f) ==
    LET ordered == _sort_by_priority(f.recommendations)
        g == greedy_select(filtered_recommendations(f.product_id, f.recommendations))
    IN  [f EXCEPT !.selected     = g.selected,
                  !.selected_ids = g.selected_ids,
                  !.seen_types   = g.seen_types,
                  !.n_raw        = Len(g.selected),
                  !.desired_i    = 1,
                  !.recommendations = ordered,
                  !.explicit_map =
                      IF f.product_id \in DictKeys(@) THEN DictSet(@, f.product_id, ordered) ELSE @,
                  !.pc = IF Len(g.selected) >= PER_PRODUCT_RECOMMENDATION_LIMIT
                         THEN "returned" ELSE "desired"]

\* lines 285-321: the frame after the sort, the filter and the greedy loop
greedy_phase(f) ==
    LET g == greedy_select(filtered_recommendations(f.product_id, f.recommendations))
    IN  [f EXCEPT !.selected     = g.selected,
                  !.selected_ids = g.selected_ids,
                  !.seen_types   = g.seen_types,
                  !.n_raw        = Len(g.selected),
                  !.desired_i    = 1,
                  !.pc = IF Len(g.selected) >= PER_PRODUCT_RECOMMENDATION_LIMIT
                         THEN "returned" ELSE "desired"]

\* variant: the iteration of lines 323-331 without the break of lines 332-333
desired_backfill_step_no_break(f) ==
    LET source_type   == type_of(f.product_id)
        source_brand  == brand_of(f.product_id)
        desired_types == RUNTIME_COMPLEMENTARY_TYPES(source_type)
        desired_type  == desired_types[f.desired_i]
        rid == _pick_global_candidate(source_type, source_brand, desired_type, f.selected_ids)
    IN  IF f.desired_i > Len(desired_types) THEN [f EXCEPT !.pc = "any"]
        ELSE IF desired_type \in f.seen_types \/ rid = ""
        THEN [f EXCEPT !.desired_i = @ + 1]
        ELSE [f EXCEPT !.selected     = Append(@, BackfillEntry(rid)),
                       !.selected_ids = @ \cup {rid},
                       !.seen_types   = @ \cup {desired_type},
                       !.desired_i    = @ + 1]

\* lines 322-333: one iteration of the loop over the desired types
desired_backfill_step(f) ==
    LET source_type   == type_of(f.product_id)
        source_brand  == brand_of(f.product_id)
        desired_types == RUNTIME_COMPLEMENTARY_TYPES(source_type)
        desired_type  == desired_types[f.desired_i]
        rid == _pick_global_candidate(source_type, source_brand, desired_type, f.selected_ids)
    IN  IF f.desired_i > Len(desired_types) THEN [f EXCEPT !.pc = "any"]
        ELSE IF desired_type \in f.seen_types \/ rid = ""
        THEN [f EXCEPT !.desired_i = @ + 1]
        ELSE [f EXCEPT !.selected     = Append(@, BackfillEntry(rid)),
                       !.selected_ids = @ \cup {rid},
                       !.seen_types   = @ \cup {desired_type},
                       !.desired_i    = @ + 1,
                       !.pc = IF Len(f.selected) + 1 >= PER_PRODUCT_RECOMMENDATION_LIMIT
                              THEN "any" ELSE "desired"]

\* variant: the loop body of lines 336-342 without line 342
any_backfill_step_forgetting_type(f) ==
    LET source_type  == type_of(f.product_id)
        source_brand == brand_of(f.product_id)
        pick == _pick_global_candidate_any(source_type, source_brand, f.selected_ids, f.seen_types)
    IN  IF ~(Len(f.selected) < PER_PRODUCT_RECOMMENDATION_LIMIT) \/ pick[1] = ""
        THEN [f EXCEPT !.pc = "returned"]
        ELSE [f EXCEPT !.selected     = Append(@, BackfillEntry(pick[1])),
                       !.selected_ids = @ \cup {pick[1]}]

\* lines 336-344: one iteration of the while loop, or the return
any_backfill_step(f) ==
    LET source_type  == type_of(f.product_id)
        source_brand == brand_of(f.product_id)
        pick == _pick_global_candidate_any(source_type, source_brand, f.selected_ids, f.seen_types)
    IN  IF ~(Len(f.selected) < PER_PRODUCT_RECOMMENDATION_LIMIT) \/ pick[1] = ""
        THEN [f EXCEPT !.pc = "returned"]
        ELSE [f EXCEPT !.selected     = Append(@, BackfillEntry(pick[1])),
                       !.selected_ids = @ \cup {pick[1]},
                       !.seen_types   = @ \cup {pick[2]}]

\* the phases of lines 285-344 in sequence, from frame f to the return
RECURSIVE run_to_return(_)
run_to_return(f) ==
    IF f.pc = "constrain" THEN run_to_return(greedy_phase(f))
    ELSE IF f.pc = "desired" THEN run_to_return(desired_backfill_step(f))
    ELSE IF f.pc = "any" THEN run_to_return(any_backfill_step(f))
    ELSE f

\* one whole call, against the pool as it is
_apply_recommendation_constraints(product_id, recommendations) ==
    run_to_return([pc |-> "constrain", product_id |-> product_id,
                   recommendations |-> recommendations,
                   selected |-> <<>>, selected_ids |-> {}, seen_types |-> {},
                   desired_i |-> 0, n_raw |-> 0]).selected

\* ------------------------------------------------------------------------
\* Resolution and aggregation
\* ------------------------------------------------------------------------

\* the category rules whose keywords the product id contains (lines 447-449)
category_hits(product_id, category_rules) ==
    {i \in 1..Len(category_rules) :
        \E k \in 1..Len(category_rules[i].key) :
            Contains(Lower(product_id), category_rules[i].key[k])}

\* variant: lines 441-453 with the category loop before the explicit test
matched_category_first(product_id, explicit_map, category_rules) ==
    LET hits == category_hits(product_id, category_rules)
    IN  IF hits # {}
        THEN [match_type |-> "category", recs |-> category_rules[First(hits)].val]
        ELSE IF product_id \in DictKeys(explicit_map)
        THEN [match_type |-> "explicit", recs |-> DictGet(explicit_map, product_id, <<>>)]
        ELSE [match_type |-> "none", recs |-> <<>>]

\* get_recommendations up to the call of the constraint engine: the branch
\* taken and the raw list handed over
matched_recommendations(product_id, explicit_map, category_rules) ==
    LET hits == category_hits(product_id, category_rules)
    IN  IF product_id \in DictKeys(explicit_map)
        THEN [match_type |-> "explicit", recs |-> DictGet(explicit_map, product_id, <<>>)]
        ELSE IF hits # {}
        THEN [match_type |-> "category", recs |-> category_rules[First(hits)].val]
        ELSE [match_type |-> "none", recs |-> <<>>]

\* variant: lines 456-480 with the category loop before the explicit test
matched_debug_category_first(product_id, explicit_map, category_rules) ==
    LET pid_lower == Lower(product_id)
        hits == {i \in 1..Len(category_rules) :
                    \E k \in 1..Len(category_rules[i].key) :
                        Contains(pid_lower, category_rules[i].key[k])}
    IN  IF hits # {}
        THEN [match_type |-> "category", matched_rule |-> category_rules[First(hits)].key,
              recs |-> category_rules[First(hits)].val]
        ELSE IF product_id \in DictKeys(explicit_map)
        THEN [match_type |-> "explicit", matched_rule |-> product_id,
              recs |-> DictGet(explicit_map, product_id, <<>>)]
        ELSE [match_type |-> "none", matched_rule |-> None, recs |-> <<>>]

\* get_recommendations_debug up to the call of the constraint engine: the
\* match metadata and the raw list handed over (lines 458-480)
matched_debug(product_id, explicit_map, category_rules) ==
    LET pid_lower == Lower(product_id)
        hits == {i \in 1..Len(category_rules) :
                    \E k \in 1..Len(category_rules[i].key) :
                        Contains(pid_lower, category_rules[i].key[k])}
    IN  IF product_id \in DictKeys(explicit_map)
        THEN [match_type |-> "explicit", matched_rule |-> product_id,
              recs |-> DictGet(explicit_map, product_id, <<>>)]
        ELSE IF hits # {}
        THEN [match_type |-> "category", matched_rule |-> category_rules[First(hits)].key,
              recs |-> category_rules[First(hits)].val]
        ELSE [match_type |-> "none", matched_rule |-> None, recs |-> <<>>]

\* one whole call of get_recommendations (lines 441-453), against the pool as it is
get_recommendations(product_id, explicit_map, category_rules) ==
    LET m == matched_recommendations(product_id, explicit_map, category_rules)
    IN  IF m.match_type = "none" THEN <<>>
        ELSE _apply_recommendation_constraints(product_id, m.recs)

\* lines 712: the cart ids of the products query parameter
parse_products(products_param) ==
    LET split == Split(products_param, ",")
        parts == KeepAt(split, {i \in 1..Len(split) : Strip(split[i]) # ""})
    IN  [i \in 1..Len(parts) |-> Strip(parts[i])]

\* variant: lines 721-741 without the cart test of line 724
accumulate_keep_cart_ids(rec_info, related_list, cart_product_ids) ==
    LET Item(info, r) ==
            LET old == DictGet(info, r.id, [count |-> 0, label |-> r.label, priority |-> r.priority])
            IN  DictSet(info, r.id, [old EXCEPT !.count = @ + 1])
        F[i \in 0..Len(related_list)] ==
            IF i = 0 THEN rec_info ELSE Item(F[i - 1], related_list[i])
    IN  F[Len(related_list)]

\* lines 721-741: one cart item's related list folded into rec_info
accumulate(rec_info, related_list, cart_product_ids) ==
    LET Item(info, r) ==
            LET rid     == r.id
                old     == DictGet(info, rid, [count |-> 0, label |-> r.label, priority |-> r.priority])
                label   == IF r.label # "" /\ old.label = "" THEN r.label ELSE old.label
                current == old.priority
                prio    == IF /\ r.priority # ""
                              /\ \/ current = ""
                                 \/ PRIORITY_RANK(r.priority) < PRIORITY_RANK(current)
                           THEN r.priority ELSE current
            IN  IF rid \in Range(cart_product_ids) THEN info
                ELSE DictSet(info, rid, [count |-> old.count + 1, label |-> label, priority |-> prio])
        F[i \in 0..Len(related_list)] ==
            IF i = 0 THEN rec_info ELSE Item(F[i - 1], related_list[i])
    IN  F[Len(related_list)]

OrNone(value) == IF value = "" THEN None ELSE value

\* variant: lines 743-749 with the sort key -count alone
ranked_by_count_only(rec_info) ==
    LET ordered == SortedByKey(rec_info,
                       [i \in 1..Len(rec_info) |-> <<-rec_info[i].val.count, 0>>])
    IN  [i \in 1..Len(ordered) |->
            [id       |-> ordered[i].key,
             label    |-> OrNone(ordered[i].val.label),
             priority |-> OrNone(ordered[i].val.priority)]]

\* lines 743-749: the ranked output list
ranked_recommendations(rec_info) ==
    LET ordered == SortedByKey(rec_info,
                       [i \in 1..Len(rec_info) |->
                           <<-rec_info[i].val.count, PRIORITY_RANK(rec_info[i].val.priority)>>])
    IN  [i \in 1..Len(ordered) |->
            [id       |-> ordered[i].key,
             label    |-> OrNone(ordered[i].val.label),
             priority |-> OrNone(ordered[i].val.priority)]]

\* ------------------------------------------------------------------------
\* Request threads
\* ------------------------------------------------------------------------

Threads == {1, 2}

\* a thread that handles no request
Idle ==
    [pc |-> "idle", route |-> "", cart_product_ids |-> <<>>,
     explicit_map |-> <<>>, category_rules |-> <<>>,
     pool |-> <<>>, fill_i |-> 0,
     cart_i |-> 0, product_id |-> "", recommendations |-> <<>>,
     selected |-> <<>>, selected_ids |-> {}, seen_types |-> {}, desired_i |-> 0,
     n_raw |-> 0,          \* how many entries of selected the greedy loop took
     related |-> <<>>,     \* the related_list of each cart item resolved so far
     match_type |-> "", matched_rule |-> None,
     force_refresh |-> FALSE,               \* the argument of _load_rules_from_csv
     now |-> 0,                             \* its local of line 408
     source |-> "local",                    \* the branch of it that loaded the rules
     rec_info |-> <<>>, response |-> None]

\* GET /api/fbt?products=... (lines 711-717)
StartFbt(t, products_param) ==
    /\ frame[t].pc = "idle"
    /\ LET cart == parse_products(products_param)
       IN  frame' = [frame EXCEPT ![t] =
              IF cart = <<>>
              THEN [Idle EXCEPT !.pc = "done", !.route = "fbt",
                                !.response = [recommendations |-> <<>>,
                                              message |-> "No products in cart"]]
              ELSE [Idle EXCEPT !.pc = "load", !.route = "fbt", !.cart_product_ids = cart]]
    /\ UNCHANGED <<csv, _RULES_CACHE, _GLOBAL_REC_BY_TYPE, validation, autofix, outside>>

\* POST /api/reload (line 507)
StartReload(t) ==
    /\ frame[t].pc = "idle"
    /\ frame' = [frame EXCEPT ![t] =
          [Idle EXCEPT !.pc = "load", !.route = "reload", !.force_refresh = TRUE]]
    /\ UNCHANGED <<csv, _RULES_CACHE, _GLOBAL_REC_BY_TYPE, validation, autofix, outside>>

\* _load_rules_from_local_csv, lines 374-377, and the local pool of
\* _refresh_global_rec_pool, lines 203-227 (CSV_URL is unset: local mode)
LoadLocalCsv(t) ==
    /\ frame[t].pc = "load"
    /\ remote.CSV_URL = ""
    /\ frame' = [frame EXCEPT ![t] =
          IF ~csv.exists
          THEN [@ EXCEPT !.pc = "store", !.explicit_map = <<>>, !.category_rules = <<>>]
          ELSE LET rules == _build_rules_from_reader(csv.rows)
               IN  [@ EXCEPT !.pc = "pool_clear",
                             !.explicit_map = rules.explicit_map,
                             !.category_rules = rules.category_rules,
                             !.pool = BuildPool(rules.explicit_map, rules.category_rules)]]
    /\ UNCHANGED <<csv, _RULES_CACHE, _GLOBAL_REC_BY_TYPE, validation, autofix, outside>>

\* line 229: _GLOBAL_REC_BY_TYPE.clear()
PoolClear(t) ==
    /\ frame[t].pc = "pool_clear"
    /\ _GLOBAL_REC_BY_TYPE' = <<>>
    /\ frame' = [frame EXCEPT ![t] =
          IF @.pool = <<>> THEN [@ EXCEPT !.pc = "store"]
          ELSE [@ EXCEPT !.pc = "pool_fill", !.fill_i = 1]]
    /\ UNCHANGED <<csv, _RULES_CACHE, validation, autofix, outside>>

\* lines 230-231: one iteration, _GLOBAL_REC_BY_TYPE[rec_type] = ids
PoolFill(t) ==
    /\ frame[t].pc = "pool_fill"
    /\ LET f == frame[t]
       IN  /\ _GLOBAL_REC_BY_TYPE' =
                 DictSet(_GLOBAL_REC_BY_TYPE, f.pool[f.fill_i].key, f.pool[f.fill_i].val)
           /\ frame' = [frame EXCEPT ![t] =
                 IF f.fill_i = Len(f.pool)
                 THEN [@ EXCEPT !.pc = "store", !.pool = <<>>, !.fill_i = 0]
                 ELSE [@ EXCEPT !.fill_i = @ + 1]]
    /\ UNCHANGED <<csv, _RULES_CACHE, validation, autofix, outside>>

\* the caller of _load_rules_from_csv goes on with the rules it got:
\* /api/reload answers with the counts (lines 508-518), /api/debug/product
\* resolves its id (line 557), /api/fbt starts its loop over the cart (line 719)
after_load(f) ==
    IF f.route = "reload"
    THEN [f EXCEPT !.pc = "done",
                   !.response = [status |-> "ok",
                                 explicit_products |-> Len(f.explicit_map),
                                 category_rules |-> Len(f.category_rules)]]
    ELSE IF f.route = "debug"
    THEN [f EXCEPT !.pc = "debug_lookup"]
    ELSE [f EXCEPT !.pc = "lookup", !.cart_i = 1]

\* _load_rules_from_csv under _RULES_LOCK: lines 400-406 in local mode, lines
\* 418-424 after a fetch, lines 433-438 after the fall back to the local file
StoreCache(t) ==
    /\ frame[t].pc = "store"
    /\ LET f == frame[t]
       IN  /\ _RULES_CACHE' =
                 IF f.source = "local"
                 THEN [explicit_map |-> f.explicit_map, category_rules |-> f.category_rules,
                       fetched_at |-> clock, source |-> "local", last_error |-> None]
                 ELSE IF f.source = "remote"
                 THEN [explicit_map |-> f.explicit_map, category_rules |-> f.category_rules,
                       fetched_at |-> f.now, source |-> "remote", last_error |-> None]
                 ELSE [_RULES_CACHE EXCEPT !.explicit_map = f.explicit_map,
                                           !.category_rules = f.category_rules,
                                           !.fetched_at = clock,
                                           !.source = "local-fallback"]
           /\ frame' = [frame EXCEPT ![t] = after_load(f)]
    /\ UNCHANGED <<csv, _GLOBAL_REC_BY_TYPE, validation, autofix, outside>>

\* RECOMMENDATIONS_CSV_REFRESH_SECONDS (line 28), in ticks of the clock
CSV_REFRESH_SECONDS == 2

\* str(exc) of a failed GET (line 427)
FetchError == "remote CSV unavailable"

\* line 411 and line 428
has_cache(cache) == cache.explicit_map # <<>> \/ cache.category_rules # <<>>

\* _load_rules_from_csv in remote mode, lines 408-413: a fresh, non-empty
\* cache is returned unless the caller forces a refresh
CacheCheck(t) ==
    /\ frame[t].pc = "load"
    /\ remote.CSV_URL # ""
    /\ LET f == frame[t]
           now == clock
           is_fresh == (now - _RULES_CACHE.fetched_at) < CSV_REFRESH_SECONDS
       IN  frame' = [frame EXCEPT ![t] =
              IF ~f.force_refresh /\ is_fresh /\ has_cache(_RULES_CACHE)
              THEN after_load([f EXCEPT !.explicit_map = _RULES_CACHE.explicit_map,
                                        !.category_rules = _RULES_CACHE.category_rules])
              ELSE [f EXCEPT !.pc = "fetch", !.now = now]]
    /\ UNCHANGED <<csv, _RULES_CACHE, _GLOBAL_REC_BY_TYPE, validation, autofix, outside>>

\* _fetch_rules_from_remote_csv, lines 383-386, when the GET succeeds, and the
\* local pool of _refresh_global_rec_pool, lines 203-227
RemoteFetch(t) ==
    /\ frame[t].pc = "fetch"
    /\ remote.up
    /\ LET rules == _build_rules_from_reader(remote.rows)
       IN  frame' = [frame EXCEPT ![t] =
              [@ EXCEPT !.pc = "pool_clear", !.source = "remote",
                        !.explicit_map = rules.explicit_map,
                        !.category_rules = rules.category_rules,
                        !.pool = BuildPool(rules.explicit_map, rules.category_rules)]]
    /\ UNCHANGED <<csv, _RULES_CACHE, _GLOBAL_REC_BY_TYPE, validation, autofix, outside>>

\* variant: lines 425-438 with the failure stamped as a refresh
RemoteErrorStampingCache(t) ==
    /\ frame[t].pc = "fetch"
    /\ ~remote.up
    /\ _RULES_CACHE' = [_RULES_CACHE EXCEPT !.last_error = FetchError, !.fetched_at = clock]
    /\ frame' = [frame EXCEPT ![t] =
          IF has_cache(_RULES_CACHE)
          THEN after_load([@ EXCEPT !.explicit_map = _RULES_CACHE.explicit_map,
                                    !.category_rules = _RULES_CACHE.category_rules])
          ELSE IF ~csv.exists
          THEN [@ EXCEPT !.pc = "store", !.source = "local-fallback",
                         !.explicit_map = <<>>, !.category_rules = <<>>]
          ELSE LET rules == _build_rules_from_reader(csv.rows)
               IN  [@ EXCEPT !.pc = "pool_clear", !.source = "local-fallback",
                             !.explicit_map = rules.explicit_map,
                             !.category_rules = rules.category_rules,
                             !.pool = BuildPool(rules.explicit_map, rules.category_rules)]]
    /\ UNCHANGED <<csv, _GLOBAL_REC_BY_TYPE, validation, autofix, outside>>

\* lines 425-432 when the GET raises: the error is recorded; a non-empty
\* cache is returned as it is; without one the local file is loaded
\* (lines 374-377 and 203-227)
RemoteError(t) ==
    /\ frame[t].pc = "fetch"
    /\ ~remote.up
    /\ _RULES_CACHE' = [_RULES_CACHE EXCEPT !.last_error = FetchError]
    /\ frame' = [frame EXCEPT ![t] =
          IF has_cache(_RULES_CACHE)
          THEN after_load([@ EXCEPT !.explicit_map = _RULES_CACHE.explicit_map,
                                    !.category_rules = _RULES_CACHE.category_rules])
          ELSE IF ~csv.exists
          THEN [@ EXCEPT !.pc = "store", !.source = "local-fallback",
                         !.explicit_map = <<>>, !.category_rules = <<>>]
          ELSE LET rules == _build_rules_from_reader(csv.rows)
               IN  [@ EXCEPT !.pc = "pool_clear", !.source = "local-fallback",
                             !.explicit_map = rules.explicit_map,
                             !.category_rules = rules.category_rules,
                             !.pool = BuildPool(rules.explicit_map, rules.category_rules)]]
    /\ UNCHANGED <<csv, _GLOBAL_REC_BY_TYPE, validation, autofix, outside>>

\* time passes, up to the horizon
Tick(horizon) ==
    /\ clock < horizon
    /\ clock' = clock + 1
    /\ UNCHANGED <<csv, _RULES_CACHE, _GLOBAL_REC_BY_TYPE, frame, validation, autofix,
                   remote, watch, csv_stat>>

\* the sheet behind CSV_URL is edited, or the host goes down or comes back
RemoteChange(states) ==
    /\ remote' \in states \ {remote}
    /\ UNCHANGED <<csv, _RULES_CACHE, _GLOBAL_REC_BY_TYPE, frame, validation, autofix,
                   clock, watch, csv_stat>>

\* get_recommendations, lines 441-453, for cart item cart_i (line 720)
Lookup(t) ==
    /\ frame[t].pc = "lookup"
    /\ LET f == frame[t]
           product_id == f.cart_product_ids[f.cart_i]
           m == matched_recommendations(product_id, f.explicit_map, f.category_rules)
       IN  frame' = [frame EXCEPT ![t] =
              IF m.match_type = "none"
              THEN [@ EXCEPT !.pc = "returned", !.product_id = product_id]
              ELSE [@ EXCEPT !.pc = "constrain", !.product_id = product_id,
                             !.recommendations = m.recs]]
    /\ UNCHANGED <<csv, _RULES_CACHE, _GLOBAL_REC_BY_TYPE, validation, autofix, outside>>

\* _apply_recommendation_constraints, lines 285-321
Greedy(t) ==
    /\ frame[t].pc = "constrain"
    /\ frame' = [frame EXCEPT ![t] = greedy_phase(@)]
    /\ UNCHANGED <<csv, _RULES_CACHE, _GLOBAL_REC_BY_TYPE, validation, autofix, outside>>

\* _apply_recommendation_constraints, lines 322-333
BackfillDesired(t) ==
    /\ frame[t].pc = "desired"
    /\ frame' = [frame EXCEPT ![t] = desired_backfill_step(@)]
    /\ UNCHANGED <<csv, _RULES_CACHE, _GLOBAL_REC_BY_TYPE, validation, autofix, outside>>

\* _apply_recommendation_constraints, lines 336-344
BackfillAny(t) ==
    /\ frame[t].pc = "any"
    /\ frame' = [frame EXCEPT ![t] = any_backfill_step(@)]
    /\ UNCHANGED <<csv, _RULES_CACHE, _GLOBAL_REC_BY_TYPE, validation, autofix, outside>>

\* lines 721-741 for the list just returned, then the next cart item
Accumulate(t) ==
    /\ frame[t].pc = "returned"
    /\ frame[t].route = "fbt"
    /\ LET f == frame[t]
       IN  frame' = [frame EXCEPT ![t] =
              [@ EXCEPT !.rec_info = accumulate(f.rec_info, f.selected, f.cart_product_ids),
                        !.related = Append(@, f.selected),
                        !.cart_i = @ + 1,
                        !.pc = IF f.cart_i = Len(f.cart_product_ids) THEN "sort" ELSE "lookup",
                        !.product_id = "", !.recommendations = <<>>,
                        !.selected = <<>>, !.selected_ids = {}, !.seen_types = {},
                        !.desired_i = 0, !.n_raw = 0]]
    /\ UNCHANGED <<csv, _RULES_CACHE, _GLOBAL_REC_BY_TYPE, validation, autofix, outside>>

\* lines 743-754
Respond(t) ==
    /\ frame[t].pc = "sort"
    /\ LET f == frame[t]
       IN  frame' = [frame EXCEPT ![t] =
              [@ EXCEPT !.pc = "done",
                        !.response = [recommendations |-> ranked_recommendations(f.rec_info),
                                      cart_products |-> f.cart_product_ids]]]
    /\ UNCHANGED <<csv, _RULES_CACHE, _GLOBAL_REC_BY_TYPE, validation, autofix, outside>>

\* GET /api/debug/product?id=... (lines 552-554)
StartDebug(t, id) ==
    /\ frame[t].pc = "idle"
    /\ frame' = [frame EXCEPT ![t] =
          IF Strip(id) = ""
          THEN [Idle EXCEPT !.pc = "done", !.route = "debug",
                            !.response = [error |-> "Missing required query param: id"]]
          ELSE [Idle EXCEPT !.pc = "load", !.route = "debug", !.product_id = Strip(id)]]
    /\ UNCHANGED <<csv, _RULES_CACHE, _GLOBAL_REC_BY_TYPE, validation, autofix, outside>>

\* get_recommendations_debug, lines 458-480, up to the constraint engine
DebugLookup(t) ==
    /\ frame[t].pc = "debug_lookup"
    /\ LET f == frame[t]
           m == matched_debug(f.product_id, f.explicit_map, f.category_rules)
       IN  frame' = [frame EXCEPT ![t] =
              [@ EXCEPT !.pc = IF m.match_type = "none" THEN "returned" ELSE "constrain",
                        !.match_type = m.match_type,
                        !.matched_rule = m.matched_rule,
                        !.recommendations = m.recs]]
    /\ UNCHANGED <<csv, _RULES_CACHE, _GLOBAL_REC_BY_TYPE, validation, autofix, outside>>

\* lines 459-480 after the constraint engine, and lines 557-563
DebugRespond(t) ==
    /\ frame[t].pc = "returned"
    /\ frame[t].route = "debug"
    /\ LET f == frame[t]
       IN  frame' = [frame EXCEPT ![t] =
              [@ EXCEPT !.pc = "done",
                        !.response = [product_id |-> f.product_id,
                                      match_type |-> f.match_type,
                                      matched_rule |-> f.matched_rule,
                                      recommendations |-> f.selected]]]
    /\ UNCHANGED <<csv, _RULES_CACHE, _GLOBAL_REC_BY_TYPE, validation, autofix, outside>>

\* the response is sent and the thread is free again
Finish(t) ==
    /\ frame[t].pc = "done"
    /\ frame' = [frame EXCEPT ![t] = Idle]
    /\ UNCHANGED <<csv, _RULES_CACHE, _GLOBAL_REC_BY_TYPE, validation, autofix, outside>>

\* the file at CSV_PATH is edited, replaced or removed
EditCsv(files) ==
    /\ csv' \in files \ {csv}
    /\ UNCHANGED <<_RULES_CACHE, _GLOBAL_REC_BY_TYPE, frame, validation, autofix, outside>>

\* ------------------------------------------------------------------------
\* Validator (validate_recommendations.py): constants and text functions
\* ------------------------------------------------------------------------

TYPE_RULES ==
    << [type |-> "helmet_accessory",
        keywords |-> <<"visor", "face shield", "faceshield", "shield", "pinlock",
                       "cheek pad", "cheek-pad", "cheekpad", "cheekpads">>],
       [type |-> "helmet",        keywords |-> <<"helmet">>],
       [type |-> "jacket",        keywords |-> <<"jacket", "coat", "parka">>],
       [type |-> "pants",         keywords |-> <<"pant", "trouser", "bibs">>],
       [type |-> "gloves",        keywords |-> <<"glove", "gauntlet">>],
       [type |-> "boots",         keywords |-> <<"boot", "shoe">>],
       [type |-> "backpack",      keywords |-> <<"backpack", "bag", "pack", "luggage">>],
       [type |-> "communication",
        keywords |-> <<"communication", "intercom", "bluetooth", "headset", "sena",
                       "cardo", "schuberth-sc2">>],
       [type |-> "tire",          keywords |-> <<"tire", "tyre", "wheel">>],
       [type |-> "air_filter",    keywords |-> <<"air filter", "air-filter", "filter">>],
       [type |-> "oil",
        keywords |-> <<"oil", "lubricant", "lube", "fork oil", "transmission oil">>],
       [type |-> "brake",         keywords |-> <<"brake", "brake pad", "rotor">>],
       [type |-> "chain",
        keywords |-> <<"chain", "sprocket", "degreaser", "chain lube", "chain wax">>],
       [type |-> "protection",
        keywords |-> <<"protector", "armor", "armour", "chest", "back protector">>] >>

\* COMPLEMENTARY_TYPES.get(source_type): {} stands for a missing key (None
\* and set() are both falsy where the result is tested)
COMPLEMENTARY_TYPES(source_type) ==
    CASE source_type = "pants"            -> {"jacket", "gloves", "boots", "protection", "backpack"}
      [] source_type = "jacket"           -> {"pants", "gloves", "boots", "protection", "helmet"}
      [] source_type = "gloves"           -> {"jacket", "pants", "boots", "helmet"}
      [] source_type = "boots"            -> {"pants", "jacket", "gloves", "helmet"}
      [] source_type = "helmet"           ->
             {"helmet_accessory", "communication", "backpack", "jacket", "gloves"}
      [] source_type = "helmet_accessory" -> {"helmet", "communication", "backpack"}
      [] source_type = "communication"    -> {"helmet", "backpack"}
      [] source_type = "tire"             -> {"brake", "chain", "oil"}
      [] source_type = "air_filter"       -> {"oil", "chain", "brake"}
      [] source_type = "oil"              -> {"air_filter", "chain", "brake"}
      [] source_type = "chain"            -> {"oil", "brake", "air_filter"}
      [] source_type = "brake"            -> {"tire", "chain", "oil"}
      [] source_type = "backpack"         -> {"helmet", "jacket", "gloves"}
      [] source_type = "protection"       -> {"jacket", "pants", "gloves", "boots"}
      [] OTHER                            -> {}

CORE_COMPLEMENTARY_TYPES == {"pants", "jacket", "gloves", "boots", "helmet"}

KNOWN_HELMET_BRANDS ==
    {"shoei", "arai", "agv", "hjc", "bell", "scorpion", "ls2", "icon", "sedici", "shark",
     "schuberth", "suomy", "simpson", "nolan", "xlite", "caberg", "klim"}

FIT_SENSITIVE_ACCESSORY_TERMS ==
    {"visor", "shield", "faceshield", "face-shield", "pinlock", "cheek", "cheekpad",
     "cheek-pad", "peak", "spoiler"}

MODEL_STOPWORDS ==
    {"helmet", "visor", "shield", "pinlock", "face", "clear", "dark", "smoke", "tinted",
     "replacement", "motorcycle", "racing", "race", "edition", "with", "for", "the", "and",
     "kit", "pack", "single", "dual", "v", "pro", "plus", "series"}

RECURSIVE ReplaceChar(_, _, _)
\* Python: text.replace(old, new) for single characters
ReplaceChar(text, old, new) ==
    IF text = "" THEN ""
    ELSE (IF Char(text, 1) = old THEN new ELSE Char(text, 1))
            \o ReplaceChar(SubSeq(text, 2, Len(text)), old, new)

normalize_text(value) == ReplaceChar(Lower(Strip(value)), "-", " ")

\* a character of the class [a-z0-9]
IsTokenChar(c) ==
    \/ \E i \in 1..Len(LowerChars) : Char(LowerChars, i) = c
    \/ \E i \in 1..Len(DigitChars) : Char(DigitChars, i) = c

\* re.findall(r"[a-z0-9]+", value.lower()): the maximal runs of token characters
slug_tokens(value) ==
    LET text == Lower(value)
        starts == {i \in 1..Len(text) :
                      IsTokenChar(Char(text, i)) /\ (i = 1 \/ ~IsTokenChar(Char(text, i - 1)))}
        EndOf(i) == CHOOSE j \in i..Len(text) :
                        /\ \A k \in i..j : IsTokenChar(Char(text, k))
                        /\ (j = Len(text) \/ ~IsTokenChar(Char(text, j + 1)))
        kept  == KeepAt([i \in 1..Len(text) |-> i], starts)
    IN  [n \in 1..Len(kept) |-> SubSeq(text, kept[n], EndOf(kept[n]))]

detect_type(product_slug) ==
    LET text == normalize_text(product_slug)
        hits == {i \in 1..Len(TYPE_RULES) :
                    \E k \in 1..Len(TYPE_RULES[i].keywords) :
                        Contains(text, TYPE_RULES[i].keywords[k])}
    IN  IF hits # {} THEN TYPE_RULES[First(hits)].type ELSE "unknown"

extract_helmet_identity(slug) ==
    LET tokens == Range(slug_tokens(slug))
    IN  [brands |-> tokens \cap KNOWN_HELMET_BRANDS,
         models |-> {token \in tokens : /\ Len(token) >= 2
                                        /\ token \notin KNOWN_HELMET_BRANDS
                                        /\ token \notin MODEL_STOPWORDS}]

is_fit_sensitive_helmet_accessory(slug) ==
    \E term \in FIT_SENSITIVE_ACCESSORY_TERMS : Contains(Lower(slug), term)

parse_bool(value) == Lower(Strip(value)) \in {"true", "yes", "y", "1", "verified"}

\* product ids the validator and the auto-fixer are run on
AGV_HELMET == "agv-pista-gp-rr-mono-carbon-helmet"
AGV_SHIELD == "agv-pista-gp-rr-face-shield"
HJC_SHIELD == "hjc-hj-26st-pinlock-face-shield"
KYT_VISOR  == "kyt-tt-revo-visor"
SENA       == "sena-srl-mesh-communication-system"
TIRE       == "michelin-scorcher-11-cruiser-tire"
HELMET_RULE == "[helmet | agv] (any product)"

ToolSlugs ==
    {AGV_HELMET, AGV_SHIELD, HJC_SHIELD, KYT_VISOR, SENA, TIRE, HELMET_RULE, JACKET, PINLOCK}

\* slug_tokens, detect_type, extract_helmet_identity and
\* is_fit_sensitive_helmet_accessory, evaluated once for the product ids above
\* and looked up afterwards; every id the two tools are run on is one of them
TokenMemo    == [slug \in ToolSlugs |-> slug_tokens(slug)]
DetectMemo   == [slug \in ToolSlugs |-> detect_type(slug)]
IdentityMemo == [slug \in ToolSlugs |-> extract_helmet_identity(slug)]
FitMemo      == [slug \in ToolSlugs |-> is_fit_sensitive_helmet_accessory(slug)]

tokens_of(slug) == TokenMemo[slug]

detected_type(slug) == DetectMemo[slug]

helmet_identity(slug) == IdentityMemo[slug]

fit_sensitive(slug) == FitMemo[slug]

\* product_id.startswith("[") and "]" in product_id
is_category_rule(product_id) ==
    product_id # "" /\ Char(product_id, 1) = "[" /\ HasChar(product_id, "]")

\* ------------------------------------------------------------------------
\* Validator: compatibility proofs and validate_csv
\* ------------------------------------------------------------------------

\* compatibility_proofs_path: None, or the path of a file that may not exist
PROOFS_CSV == "compatibility_proofs.csv"
NoPath == [exists |-> FALSE, rows |-> <<>>, path |-> None]
ProofsAt(file) == [exists |-> file.exists, rows |-> file.rows, path |-> PROOFS_CSV]

ProofRow(pid, rid, verified, source) ==
    [pid |-> pid, rid |-> rid, verified |-> verified, source |-> source]

\* load_compatibility_proofs: [proofs, issues]; proofs is a dict keyed by
\* <<product_id, rec_id>>, a later row of a pair replaces an earlier one
load_compatibility_proofs(proofs_path) ==
    LET rows == proofs_path.rows
        Load(acc, n) ==
            LET product_id == Strip(rows[n].pid)
                rec_id     == Strip(rows[n].rid)
            IN  IF product_id = "" \/ rec_id = ""
                THEN [acc EXCEPT !.issues = Append(@,
                         "Proofs row " \o ToString(n + 1)
                             \o ": missing Product ID or Recommended Product ID")]
                ELSE [acc EXCEPT !.proofs = DictSet(@, <<product_id, rec_id>>,
                         [verified |-> parse_bool(rows[n].verified),
                          source   |-> Strip(rows[n].source)])]
        F[n \in 0..Len(rows)] ==
            IF n = 0 THEN [proofs |-> <<>>, issues |-> <<>>] ELSE Load(F[n - 1], n)
    IN  IF proofs_path = NoPath THEN [proofs |-> <<>>, issues |-> <<>>]
        ELSE IF ~proofs_path.exists
        THEN [proofs |-> <<>>, issues |-> <<"Compatibility proofs file not found: " \o proofs_path.path>>]
        ELSE F[Len(rows)]

Pair(product_id, rec_id) == "'" \o product_id \o "' -> '" \o rec_id \o "'"

RowPrefix(row_num) == "Row " \o ToString(row_num) \o ": "

\* the messages of validate_csv
msg_missing(row_num) ==
    RowPrefix(row_num) \o "missing Product ID or Recommended Product ID"

msg_self(row_num, product_id) ==
    RowPrefix(row_num) \o "self-recommendation is not allowed (" \o product_id \o ")"

msg_duplicate(row_num, product_id, rec_id) ==
    RowPrefix(row_num) \o "duplicate recommendation for " \o Pair(product_id, rec_id)

msg_non_complementary(row_num, product_id, rec_id) ==
    RowPrefix(row_num) \o "non-complementary recommendation ("
        \o detected_type(product_id) \o " -> " \o detected_type(rec_id) \o ") for "
        \o Pair(product_id, rec_id)

msg_unusual_pair(row_num, product_id, rec_id) ==
    RowPrefix(row_num) \o "unusual pair ("
        \o detected_type(product_id) \o " -> " \o detected_type(rec_id) \o ") for "
        \o Pair(product_id, rec_id)

msg_brand_mismatch(row_num, product_id, rec_id) ==
    RowPrefix(row_num) \o "helmet brand mismatch for fit-sensitive accessory ("
        \o Pair(product_id, rec_id) \o ")"

msg_model_specific(row_num, product_id, rec_id) ==
    RowPrefix(row_num)
        \o "accessory appears model-specific but no helmet model match was found ("
        \o Pair(product_id, rec_id) \o ")"

msg_heuristic_fit(row_num, product_id, rec_id) ==
    RowPrefix(row_num) \o "no source proof entry, but heuristic fit looks plausible ("
        \o Pair(product_id, rec_id) \o ")"

msg_missing_proof(row_num, product_id, rec_id) ==
    RowPrefix(row_num)
        \o "missing verified compatibility source for fit-sensitive accessory ("
        \o Pair(product_id, rec_id) \o ")"

\* list.append when the condition holds
AppendIf(list, cond, item) == IF cond THEN Append(list, item) ELSE list

\* has_verified_source, lines 279-284
has_verified_source(compatibility_proofs, product_id, rec_id) ==
    /\ <<product_id, rec_id>> \in DictKeys(compatibility_proofs)
    /\ LET proof == DictGet(compatibility_proofs, <<product_id, rec_id>>, None)
       IN  proof.verified /\ Strip(proof.source) # ""

\* heuristic_fit_ok, lines 295-297
heuristic_fit_ok(product_id, rec_id) ==
    LET src == helmet_identity(product_id)
        rec == helmet_identity(rec_id)
    IN  (src.brands \cap rec.brands # {}) \/ (src.models \cap rec.models # {})

\* src_brands and rec_brands and src_brands.isdisjoint(rec_brands)
brands_conflict(product_id, rec_id) ==
    LET src_brands == helmet_identity(product_id).brands
        rec_brands == helmet_identity(rec_id).brands
    IN  src_brands # {} /\ rec_brands # {} /\ src_brands \cap rec_brands = {}

\* variant: the type check of lines 257-272 without the warning of lines 267-272
type_issues_without_warning(v, row_num, product_id, rec_id) ==
    LET source_type == detected_type(product_id)
        rec_type    == detected_type(rec_id)
    IN  [v EXCEPT
           !.errors = AppendIf(@, /\ ~is_category_rule(product_id)
                                  /\ source_type # "unknown" /\ rec_type # "unknown"
                                  /\ source_type = rec_type
                                  /\ source_type \in CORE_COMPLEMENTARY_TYPES,
                               msg_non_complementary(row_num, product_id, rec_id))]

\* lines 257-272: the type check of one row
type_issues(v, row_num, product_id, rec_id) ==
    LET source_type == detected_type(product_id)
        rec_type    == detected_type(rec_id)
        checked     == /\ ~is_category_rule(product_id)
                       /\ source_type # "unknown" /\ rec_type # "unknown"
        allowed     == COMPLEMENTARY_TYPES(source_type)
    IN  [v EXCEPT
           !.errors = AppendIf(@, /\ checked
                                  /\ source_type = rec_type
                                  /\ source_type \in CORE_COMPLEMENTARY_TYPES,
                               msg_non_complementary(row_num, product_id, rec_id)),
           !.warnings = AppendIf(@, /\ checked
                                    /\ source_type \in CORE_COMPLEMENTARY_TYPES
                                    /\ allowed # {}
                                    /\ rec_type \notin allowed,
                                 msg_unusual_pair(row_num, product_id, rec_id))]

\* lines 274-316 with the two decisions handed in: whether the brand
\* mismatch is reported (line 286) and whether a missing proof is downgraded
\* to a warning (line 306)
fit_report(v, row_num, product_id, rec_id, mismatch, downgrade) ==
    LET fit_ok   == heuristic_fit_ok(product_id, rec_id)
        for_mark == "for" \in Range(tokens_of(rec_id))
        unproven == /\ v.strict_compatibility
                    /\ ~has_verified_source(v.compatibility_proofs, product_id, rec_id)
    IN  IF ~( /\ ~is_category_rule(product_id)
              /\ detected_type(product_id) = "helmet"
              /\ fit_sensitive(rec_id) )
        THEN v
        ELSE [v EXCEPT
                !.errors =
                    AppendIf(AppendIf(@, mismatch,
                                      msg_brand_mismatch(row_num, product_id, rec_id)),
                             unproven /\ ~downgrade,
                             msg_missing_proof(row_num, product_id, rec_id)),
                !.warnings =
                    AppendIf(AppendIf(@, for_mark /\ ~fit_ok,
                                      msg_model_specific(row_num, product_id, rec_id)),
                             unproven /\ downgrade,
                             msg_heuristic_fit(row_num, product_id, rec_id))]

\* variant: the brand mismatch reported in strict mode only
fit_issues_strict_only(v, row_num, product_id, rec_id) ==
    fit_report(v, row_num, product_id, rec_id,
               v.strict_compatibility /\ brands_conflict(product_id, rec_id),
               v.allow_heuristic_fit /\ heuristic_fit_ok(product_id, rec_id))

\* variant: a missing proof downgraded whenever the allowance is enabled
fit_issues_allowance_alone(v, row_num, product_id, rec_id) ==
    fit_report(v, row_num, product_id, rec_id,
               brands_conflict(product_id, rec_id),
               v.allow_heuristic_fit)

\* lines 274-316: the fit-sensitive helmet compatibility check of one row
fit_issues(v, row_num, product_id, rec_id) ==
    fit_report(v, row_num, product_id, rec_id,
               brands_conflict(product_id, rec_id),
               v.allow_heuristic_fit /\ heuristic_fit_ok(product_id, rec_id))

\* variant: the structural checks of lines 246-255 without the duplicate test
structural_issues_no_duplicates(v, row_num, product_id, rec_id) ==
    [v EXCEPT
       !.errors = AppendIf(@, product_id = rec_id, msg_self(row_num, product_id)),
       !.seen_by_product =
           DictSet(@, product_id, DictGet(@, product_id, {}) \cup {rec_id})]

\* lines 250-255: self-recommendation and duplicate pair
structural_issues(v, row_num, product_id, rec_id) ==
    [v EXCEPT
       !.errors =
           AppendIf(AppendIf(@, product_id = rec_id, msg_self(row_num, product_id)),
                    rec_id \in DictGet(v.seen_by_product, product_id, {}),
                    msg_duplicate(row_num, product_id, rec_id)),
       !.seen_by_product =
           DictSet(@, product_id, DictGet(@, product_id, {}) \cup {rec_id})]

\* lines 242-316: one iteration of the loop over the rows
validate_row(v, row_num, row) ==
    LET product_id == Strip(row.pid)
        rec_id     == Strip(row.rid)
    IN  IF product_id = "" \/ rec_id = ""
        THEN [v EXCEPT !.errors = Append(@, msg_missing(row_num))]
        ELSE fit_issues(
                 type_issues(
                     structural_issues(v, row_num, product_id, rec_id),
                     row_num, product_id, rec_id),
                 row_num, product_id, rec_id)

\* categorize_issue, lines 321-331
categorize_issue(message) ==
    LET text == Lower(message)
    IN  IF Contains(text, "helmet brand mismatch") THEN "definite mismatch"
        ELSE IF Contains(text, "missing verified compatibility source") THEN "missing proof"
        ELSE IF Contains(text, "no source proof entry, but heuristic fit looks plausible")
        THEN "heuristic uncertain"
        ELSE IF Contains(text, "no helmet model match was found") THEN "heuristic uncertain"
        ELSE "other"

\* validate_csv, lines 223-231: the proofs are loaded, their issues reported
ValidateStart ==
    /\ validation.pc = "start"
    /\ LET loaded == load_compatibility_proofs(validation.compatibility_proofs_path)
       IN  validation' =
              [validation EXCEPT
                 !.pc = "rows",
                 !.compatibility_proofs = loaded.proofs,
                 !.errors = IF validation.strict_compatibility THEN loaded.issues ELSE <<>>,
                 !.warnings = IF validation.strict_compatibility THEN <<>> ELSE loaded.issues]
    /\ UNCHANGED <<csv, _RULES_CACHE, _GLOBAL_REC_BY_TYPE, frame, autofix, outside>>

\* validate_csv, lines 241-316: the next row of the file (the first data row
\* is row 2)
ValidateRow ==
    /\ validation.pc = "rows"
    /\ validation.row_i <= Len(csv.rows)
    /\ validation' =
          [validate_row(validation, validation.row_i + 1, csv.rows[validation.row_i])
              EXCEPT !.row_i = @ + 1]
    /\ UNCHANGED <<csv, _RULES_CACHE, _GLOBAL_REC_BY_TYPE, frame, autofix, outside>>

\* validate_csv, line 318: return errors, warnings
ValidateReturn ==
    /\ validation.pc = "rows"
    /\ validation.row_i > Len(csv.rows)
    /\ validation' = [validation EXCEPT !.pc = "done"]
    /\ UNCHANGED <<csv, _RULES_CACHE, _GLOBAL_REC_BY_TYPE, frame, autofix, outside>>

\* validate_csv, lines 216-318, from call to return: the three steps above
\* run on the rows of a file
validate_csv(rows, strict_compatibility, compatibility_proofs_path, allow_heuristic_fit) ==
    LET loaded == load_compatibility_proofs(compatibility_proofs_path)
        start  == [pc |-> "rows", row_i |-> 1,
                   strict_compatibility |-> strict_compatibility,
                   allow_heuristic_fit |-> allow_heuristic_fit,
                   compatibility_proofs_path |-> compatibility_proofs_path,
                   compatibility_proofs |-> loaded.proofs,
                   seen_by_product |-> <<>>,
                   errors |-> IF strict_compatibility THEN loaded.issues ELSE <<>>,
                   warnings |-> IF strict_compatibility THEN <<>> ELSE loaded.issues]
        F[n \in 0..Len(rows)] ==
            IF n = 0 THEN start
            ELSE [validate_row(F[n - 1], n + 1, rows[n]) EXCEPT !.row_i = @ + 1]
    IN  [F[Len(rows)] EXCEPT !.pc = "done"]

\* variant: is_definite_mismatch for a source of any type
is_definite_mismatch_any_source(product_id, rec_id) ==
    IF ~fit_sensitive(rec_id) THEN FALSE
    ELSE LET src_brands == helmet_identity(product_id).brands
             rec_brands == helmet_identity(rec_id).brands
         IN  src_brands # {} /\ rec_brands # {} /\ src_brands \cap rec_brands = {}

\* ------------------------------------------------------------------------
\* Auto-fixer: autofix_definite_mismatches.py
\* ------------------------------------------------------------------------

\* autofix is [pc, idx, dry_run, in_place, proofs_path, verified_by_product,
\* product_recs, global_candidates, rows, changes, unresolved, out, backup];
\* out and backup are the files main may write.

\* is_definite_mismatch, lines 25-34
is_definite_mismatch(product_id, rec_id) ==
    IF detected_type(product_id) # "helmet" THEN FALSE
    ELSE IF ~fit_sensitive(rec_id) THEN FALSE
    ELSE LET src_brands == helmet_identity(product_id).brands
             rec_brands == helmet_identity(rec_id).brands
         IN  src_brands # {} /\ rec_brands # {} /\ src_brands \cap rec_brands = {}

\* load_verified_proofs, lines 37-53: product id -> set of verified rec ids
load_verified_proofs(proofs_path) ==
    LET rows == proofs_path.rows
        Load(by_product, n) ==
            LET product_id == Strip(rows[n].pid)
                rec_id     == Strip(rows[n].rid)
                verified   == Lower(Strip(rows[n].verified))
                source     == Strip(rows[n].source)
            IN  IF product_id = "" \/ rec_id = "" THEN by_product
                ELSE IF verified \in {"yes", "y", "true", "1", "verified"} /\ source # ""
                THEN DictSet(by_product, product_id,
                             DictGet(by_product, product_id, {}) \cup {rec_id})
                ELSE by_product
        F[n \in 0..Len(rows)] == IF n = 0 THEN <<>> ELSE Load(F[n - 1], n)
    IN  IF proofs_path = NoPath \/ ~proofs_path.exists THEN <<>> ELSE F[Len(rows)]

\* variant: score_candidate without the rejection of line 64-65
score_candidate_existing_allowed(source_product_id, original_rec_id, candidate_id, source_existing_recs) ==
    LET allowed == COMPLEMENTARY_TYPES(detected_type(source_product_id))
        src  == helmet_identity(source_product_id)
        cand == helmet_identity(candidate_id)
        brand_overlap == src.brands \cap cand.brands # {}
        model_overlap == src.models \cap cand.models # {}
    IN  IF candidate_id = source_product_id THEN -10000
        ELSE IF is_definite_mismatch(source_product_id, candidate_id) THEN -8000
        ELSE IF allowed # {} /\ detected_type(candidate_id) \notin allowed THEN -7000
        ELSE (IF detected_type(candidate_id) = detected_type(original_rec_id) THEN 80 ELSE 0)
           + (IF detected_type(candidate_id) = "helmet_accessory" THEN 30 ELSE 0)
           + (IF brand_overlap THEN 70 ELSE 0)
           + (IF model_overlap THEN 60 ELSE 0)
           + (IF fit_sensitive(candidate_id) THEN 10 ELSE 0)
           + (IF Contains(Lower(candidate_id), "for") /\ (brand_overlap \/ model_overlap)
              THEN 10 ELSE 0)

\* score_candidate, lines 56-94
score_candidate(source_product_id, original_rec_id, candidate_id, source_existing_recs) ==
    LET allowed == COMPLEMENTARY_TYPES(detected_type(source_product_id))
        src  == helmet_identity(source_product_id)
        cand == helmet_identity(candidate_id)
        brand_overlap == src.brands \cap cand.brands # {}
        model_overlap == src.models \cap cand.models # {}
    IN  IF candidate_id = source_product_id THEN -10000
        ELSE IF candidate_id \in source_existing_recs THEN -9000
        ELSE IF is_definite_mismatch(source_product_id, candidate_id) THEN -8000
        ELSE IF allowed # {} /\ detected_type(candidate_id) \notin allowed THEN -7000
        ELSE (IF detected_type(candidate_id) = detected_type(original_rec_id) THEN 80 ELSE 0)
           + (IF detected_type(candidate_id) = "helmet_accessory" THEN 30 ELSE 0)
           + (IF brand_overlap THEN 70 ELSE 0)
           + (IF model_overlap THEN 60 ELSE 0)
           + (IF fit_sensitive(candidate_id) THEN 10 ELSE 0)
           + (IF Contains(Lower(candidate_id), "for") /\ (brand_overlap \/ model_overlap)
              THEN 10 ELSE 0)

\* lines 115-124: the first candidate of the list with the highest score above
\* -10000, returned if that score is above 0; None otherwise
best_global(source_product_id, original_rec_id, source_existing_recs, global_candidates) ==
    LET score == [i \in 1..Len(global_candidates) |->
                     score_candidate(source_product_id, original_rec_id,
                                     global_candidates[i], source_existing_recs)]
        hits  == {i \in 1..Len(global_candidates) :
                     /\ score[i] > -10000
                     /\ \A j \in 1..Len(global_candidates) : score[j] <= score[i]}
    IN  IF hits # {} /\ score[First(hits)] > 0 THEN global_candidates[First(hits)] ELSE None

\* variant: pick_replacement taking the best of verified and global candidates alike
pick_replacement_best_overall(source_product_id, original_rec_id, source_existing_recs, verified_candidates, global_candidates) ==
    LET pool == Range(global_candidates) \cup verified_candidates
        score == [c \in pool |-> score_candidate(source_product_id, original_rec_id, c,
                                                 source_existing_recs)]
        top == {c \in pool : score[c] > 0 /\ \A d \in pool : score[d] <= score[c]}
    IN  IF top # {} THEN top ELSE {None}

\* pick_replacement, lines 97-124: the set of values the call can return. The
\* verified candidates are a set of strings, sorted by score alone (line 105):
\* which of several top-scoring candidates comes first depends on the set's
\* iteration order, which differs from run to run.
pick_replacement(source_product_id, original_rec_id, source_existing_recs, verified_candidates, global_candidates) ==
    LET score == [c \in verified_candidates |->
                     score_candidate(source_product_id, original_rec_id, c,
                                     source_existing_recs)]
        ranked_first == {c \in verified_candidates :
                            \A d \in verified_candidates : score[d] <= score[c]}
    IN  IF \E c \in ranked_first : score[c] > 0
        THEN ranked_first
        ELSE {best_global(source_product_id, original_rec_id, source_existing_recs,
                          global_candidates)}

\* Python: a < b for strings: the code points at the first position where
\* they differ decide, a proper prefix is smaller
StrLess(a, b) ==
    LET CodePoints == " (),-./0123456789:" \o UpperChars \o "[]_" \o LowerChars \o "|"
        Ord(c) == CHOOSE i \in 1..Len(CodePoints) : Char(CodePoints, i) = c
        n == IF Len(a) < Len(b) THEN Len(a) ELSE Len(b)
        differ == {i \in 1..n : Char(a, i) # Char(b, i)}
    IN  IF differ = {} THEN Len(a) < Len(b)
        ELSE Ord(Char(a, First(differ))) < Ord(Char(b, First(differ)))

\* Python: sorted(ids) for a set of strings
SortedStrings(ids) ==
    [p \in 1..Cardinality(ids) |->
        CHOOSE s \in ids : Cardinality({t \in ids : StrLess(t, s)}) = p - 1]

\* lines 184-192: every rec id the rows give a product, ids stripped, rows
\* with an empty id left out
build_product_recs(rows) ==
    LET Add(product_recs, n) ==
            LET pid == Strip(rows[n].pid)
                rid == Strip(rows[n].rid)
            IN  IF pid = "" \/ rid = "" THEN product_recs
                ELSE DictSet(product_recs, pid, DictGet(product_recs, pid, {}) \cup {rid})
        F[n \in 0..Len(rows)] == IF n = 0 THEN <<>> ELSE Add(F[n - 1], n)
    IN  F[Len(rows)]

\* lines 185-194: global_candidates
build_global_candidates(rows) ==
    SortedStrings({Strip(rows[n].rid) : n \in {k \in 1..Len(rows) :
                                             Strip(rows[k].pid) # "" /\ Strip(rows[k].rid) # ""}})

\* lines 200-207: the row is left alone
skipped(row) ==
    LET product_id == Strip(row.pid)
        rec_id     == Strip(row.rid)
    IN  \/ product_id = "" \/ rec_id = ""
        \/ is_category_rule(product_id)
        \/ ~is_definite_mismatch(product_id, rec_id)

\* lines 209-217: what pick_replacement can return for row n
replacement_choices(fx, n) ==
    LET product_id == Strip(fx.rows[n].pid)
        rec_id     == Strip(fx.rows[n].rid)
    IN  IF skipped(fx.rows[n]) THEN {None}
        ELSE pick_replacement(product_id, rec_id,
                              DictGet(fx.product_recs, product_id, {}) \ {rec_id},
                              DictGet(fx.verified_by_product, product_id, {}),
                              fx.global_candidates)

\* variant: the loop body of lines 198-225 that drops a row without replacement
fix_row_forgetting_unresolved(fx, n, replacement) ==
    LET product_id == Strip(fx.rows[n].pid)
        rec_id     == Strip(fx.rows[n].rid)
    IN  IF skipped(fx.rows[n]) \/ replacement = None THEN fx
        ELSE [fx EXCEPT
                !.rows[n].rid = replacement,
                !.product_recs =
                    DictSet(@, product_id,
                            (DictGet(@, product_id, {}) \ {rec_id}) \cup {replacement}),
                !.changes = Append(@, <<n + 1, product_id, rec_id, replacement>>)]

\* variant: the loop body of lines 198-225 without the bookkeeping of lines
\* 223-224
fix_row_stale_product_recs(fx, n, replacement) ==
    LET product_id == Strip(fx.rows[n].pid)
        rec_id     == Strip(fx.rows[n].rid)
    IN  IF skipped(fx.rows[n]) THEN fx
        ELSE IF replacement = None
        THEN [fx EXCEPT !.unresolved = Append(@, <<n + 1, product_id, rec_id>>)]
        ELSE [fx EXCEPT
                !.rows[n].rid = replacement,
                !.changes = Append(@, <<n + 1, product_id, rec_id, replacement>>)]

\* lines 198-225: the loop body for row n (reported as row n + 1), given what
\* pick_replacement returned
fix_row(fx, n, replacement) ==
    LET product_id == Strip(fx.rows[n].pid)
        rec_id     == Strip(fx.rows[n].rid)
    IN  IF skipped(fx.rows[n]) THEN fx
        ELSE IF replacement = None
        THEN [fx EXCEPT !.unresolved = Append(@, <<n + 1, product_id, rec_id>>)]
        ELSE [fx EXCEPT
                !.rows[n].rid = replacement,
                !.product_recs =
                    DictSet(@, product_id,
                            (DictGet(@, product_id, {}) \ {rec_id}) \cup {replacement}),
                !.changes = Append(@, <<n + 1, product_id, rec_id, replacement>>)]

\* main, lines 172-196: return 2 without the CSV, else load proofs and rows
FixStart ==
    /\ autofix.pc = "start"
    /\ IF ~csv.exists
       THEN autofix' = [autofix EXCEPT !.pc = "failed"]
       ELSE autofix' =
               [autofix EXCEPT
                  !.pc = "rows",
                  !.verified_by_product = load_verified_proofs(autofix.proofs_path),
                  !.rows = csv.rows,
                  !.product_recs = build_product_recs(csv.rows),
                  !.global_candidates = build_global_candidates(csv.rows)]
    /\ UNCHANGED <<csv, _RULES_CACHE, _GLOBAL_REC_BY_TYPE, frame, validation, outside>>

\* main, lines 198-225: one iteration of the loop over the rows
FixRow ==
    /\ autofix.pc = "rows"
    /\ autofix.idx <= Len(autofix.rows)
    /\ \E replacement \in replacement_choices(autofix, autofix.idx) :
          autofix' = [fix_row(autofix, autofix.idx, replacement) EXCEPT !.idx = @ + 1]
    /\ UNCHANGED <<csv, _RULES_CACHE, _GLOBAL_REC_BY_TYPE, frame, validation, outside>>

\* main, lines 227-261: a dry run writes nothing; --in-place copies the CSV to a
\* backup and overwrites it; otherwise the rows go to the output path
FixWrite ==
    /\ autofix.pc = "rows"
    /\ autofix.idx > Len(autofix.rows)
    /\ IF autofix.dry_run
       THEN autofix' = [autofix EXCEPT !.pc = "done"] /\ UNCHANGED csv
       ELSE IF autofix.in_place
       THEN /\ autofix' = [autofix EXCEPT !.pc = "done", !.backup = csv]
            /\ csv' = File(autofix.rows)
       ELSE /\ autofix' = [autofix EXCEPT !.pc = "done", !.out = File(autofix.rows)]
            /\ UNCHANGED csv
    /\ UNCHANGED <<_RULES_CACHE, _GLOBAL_REC_BY_TYPE, frame, validation, outside>>

\* ------------------------------------------------------------------------
\* Watcher: watch_validate_recommendations.py
\* ------------------------------------------------------------------------

\* csv_stat is what os.stat gives for the CSV: None without the file, else
\* a value standing for the pair (st_mtime_ns, st_size).
\* watch is [pc, settle, previous, pending_change_since, changes, reports,
\* last]; pending_change_since is Unset for None, or Since(e) with e the time
\* that has passed since the stamp of line 130, counted up to settle; changes counts the changes
\* detected since the last report, up to MaxBurst; reports counts the reports
\* of the polling loop; last is what the last report said and how many
\* detected changes it answers.

MaxBurst == 2    \* changes of one burst are counted up to this number

\* the values of pending_change_since
Unset == <<>>
Since(e) == <<e>>
elapsed(w) == w.pending_change_since[1]

\* file_signature, lines 21-26
file_signature(stat) == stat

\* run_validation, lines 29-62, with the switches at their defaults
\* (lines 83-106): what it prints about the file
run_validation(file) ==
    LET report == validate_csv(file.rows, FALSE, ProofsAt(NoFile), FALSE)
    IN  [said |-> IF report.errors # <<>> THEN "Validation failed." ELSE "Validation passed.",
         errors |-> Len(report.errors), warnings |-> Len(report.warnings), changes |-> 0]

\* line 148
MissingReport ==
    [said |-> "Change detected but CSV is missing", errors |-> 0, warnings |-> 0, changes |-> 0]

\* before the first report
NothingSaid == [said |-> "", errors |-> 0, warnings |-> 0, changes |-> 0]

\* line 122
NotFoundYet == [said |-> "CSV not found yet", errors |-> 0, warnings |-> 0, changes |-> 0]

\* main, lines 113-125: the first validation, then the signature is remembered
WatchStart ==
    /\ watch.pc = "start"
    /\ watch' = [watch EXCEPT !.pc = "poll",
                              !.last = IF csv.exists THEN run_validation(csv) ELSE NotFoundYet,
                              !.previous = file_signature(csv_stat),
                              !.pending_change_since = Unset]
    /\ UNCHANGED <<csv, _RULES_CACHE, _GLOBAL_REC_BY_TYPE, frame, validation, autofix,
                   clock, remote, csv_stat>>

\* variant: lines 128-130 keeping the stamp of a change that is pending
WatchPollKeepingStamp ==
    /\ watch.pc = "poll"
    /\ LET current == file_signature(csv_stat)
       IN  watch' = IF current # watch.previous
                    THEN [watch EXCEPT !.pc = "settle",
                                       !.pending_change_since = IF @ = Unset THEN Since(0) ELSE @,
                                       !.previous = current,
                                       !.changes = IF @ < MaxBurst THEN @ + 1 ELSE @]
                    ELSE [watch EXCEPT !.pc = "settle"]
    /\ UNCHANGED <<csv, _RULES_CACHE, _GLOBAL_REC_BY_TYPE, frame, validation, autofix,
                   clock, remote, csv_stat>>

\* main, lines 128-130: a changed signature stamps the change
WatchPoll ==
    /\ watch.pc = "poll"
    /\ LET current == file_signature(csv_stat)
       IN  watch' = IF current # watch.previous
                    THEN [watch EXCEPT !.pc = "settle", !.pending_change_since = Since(0),
                                       !.previous = current,
                                       !.changes = IF @ < MaxBurst THEN @ + 1 ELSE @]
                    ELSE [watch EXCEPT !.pc = "settle"]
    /\ UNCHANGED <<csv, _RULES_CACHE, _GLOBAL_REC_BY_TYPE, frame, validation, autofix,
                   clock, remote, csv_stat>>

\* main, lines 132-149: a change that has been pending for the settle period
\* is validated, or reported missing, and is pending no more
WatchSettle ==
    /\ watch.pc = "settle"
    /\ watch' = IF watch.pending_change_since # Unset /\ elapsed(watch) >= watch.settle
                THEN [watch EXCEPT !.pc = "sleep",
                                   !.last = [(IF csv.exists THEN run_validation(csv)
                                              ELSE MissingReport)
                                                EXCEPT !.changes = watch.changes],
                                   !.changes = 0,
                                   !.reports = @ + 1,
                                   !.pending_change_since = Unset]
                ELSE [watch EXCEPT !.pc = "sleep"]
    /\ UNCHANGED <<csv, _RULES_CACHE, _GLOBAL_REC_BY_TYPE, frame, validation, autofix,
                   clock, remote, csv_stat>>

\* main, line 151: the sleep takes some time, at least 0.1 s
WatchSleep(longest) ==
    /\ watch.pc = "sleep"
    /\ \E slept \in 1..longest :
          watch' = [watch EXCEPT
                      !.pc = "poll",
                      !.pending_change_since =
                          IF @ = Unset THEN Unset
                          ELSE IF elapsed(watch) + slept > watch.settle
                          THEN Since(watch.settle)
                          ELSE Since(elapsed(watch) + slept)]
    /\ UNCHANGED <<csv, _RULES_CACHE, _GLOBAL_REC_BY_TYPE, frame, validation, autofix,
                   clock, remote, csv_stat>>

\* main, lines 152-154: Ctrl+C ends the loop
WatchInterrupt ==
    /\ watch.pc \in {"poll", "settle", "sleep"}
    /\ watch' = [watch EXCEPT !.pc = "stopped"]
    /\ UNCHANGED <<csv, _RULES_CACHE, _GLOBAL_REC_BY_TYPE, frame, validation, autofix,
                   clock, remote, csv_stat>>

\* somebody saves, replaces or removes the CSV while the watcher has made
\* fewer than reports_bound reports
TouchCsv(files, stats, reports_bound) ==
    /\ watch.reports < reports_bound
    /\ \E file \in files, stat \in stats \cup {None} :
          /\ file.exists <=> stat # None
          /\ stat # csv_stat
          /\ csv' = file
          /\ csv_stat' = stat
    /\ UNCHANGED <<_RULES_CACHE, _GLOBAL_REC_BY_TYPE, frame, validation, autofix,
                   clock, remote, watch>>

\* ------------------------------------------------------------------------
\* Inputs
\* ------------------------------------------------------------------------

MaxRaw  == 3    \* longest raw recommendation list handed to the constraint engine
MaxPool == 2    \* most ids in a drawn global pool
MaxRows == 2    \* most rows of a drawn CSV file
MaxCart == 2    \* most ids in a drawn cart

SeqsUpTo(S, n) == UNION {[1..k -> S] : k \in 0..n}

Row(pid, rid, label, type, priority) ==
    [pid |-> pid, rid |-> rid, label |-> label, type |-> type, priority |-> priority]

\* inputs of the constraint engine on its own
SourceIds == {HELMET, JACKET, PANTS, OIL}
RawRecs ==
    {[id |-> i, label |-> "", priority |-> "Primary"] : i \in {PANTS, GLOVES}}
      \cup {[id |-> GLOVES2, label |-> "", priority |-> "Secondary"]}
      \cup {[id |-> i, label |-> "", priority |-> ""] : i \in {JACKET, OIL}}
PoolIds == {PINLOCK, JACKET, GLOVES, GLOVES2}
RawLists == SeqsUpTo(RawRecs, MaxRaw)
Pools ==
    {LET F[i \in 0..Len(q)] == IF i = 0 THEN <<>> ELSE add_candidate(F[i - 1], q[i])
     IN  F[Len(q)] : q \in SeqsUpTo(PoolIds, MaxPool)}

\* inputs of one /api/fbt request on its own
RowUniverse ==
    { Row(HELMET, PINLOCK, "", "Explicit", ""),
      Row("[Jacket | boot] (any product)", PINLOCK, "Ear plugs", "Category", "Primary"),
      Row(HELMET, PANTS, "Riding pants", "", "Secondary"),
      Row(JACKET, GLOVES, "Gloves", "explicit", "Secondary"),
      Row(BOOTS, " ", "", "Explicit", ""),
      Row(OIL, GLOVES2, "", "Explicit", "Tertiary"),
      Row(GLOVES2, GLOVES, "", "Explicit", ""),
      Row("[Boots] (any product)", GLOVES, "Gloves", "category", "") }
CartIds == {HELMET, JACKET, BOOTS}
DebugIds == {HELMET, " " \o JACKET, BOOTS, PANTS, " "}

RECURSIVE JoinComma(_)
JoinComma(ids) ==
    IF ids = <<>> THEN ""
    ELSE IF Len(ids) = 1 THEN ids[1]
    ELSE ids[1] \o "," \o JoinComma(Tail(ids))

DrawnFiles  == {File(rows) : rows \in SeqsUpTo(RowUniverse, MaxRows)} \cup {NoFile}
DrawnParams == {JoinComma(c) : c \in SeqsUpTo(CartIds, MaxCart)} \cup {" " \o HELMET \o " ,, " \o JACKET}

\* inputs of the server with concurrent requests
FileA == << Row(HELMET, PINLOCK, "", "Explicit", "") >>
FileB == << Row(HELMET, JACKET, "Riding jacket", "Explicit", "Primary"),
            Row("[helmet | visor] (any product)", GLOVES, "Gloves", "Category", "") >>
ServerFiles  == {File(FileA), File(FileB)}
ServerParams == {HELMET, ""}

\* inputs of one validator run: a rules file, a proofs file, the two switches
PlainRow(pid, rid) == Row(pid, rid, "", "Explicit", "")
ValidatorRows ==
    { PlainRow(AGV_HELMET, HJC_SHIELD),
      PlainRow(AGV_HELMET, AGV_SHIELD),
      PlainRow(AGV_HELMET \o " ", " " \o KYT_VISOR),
      PlainRow(AGV_HELMET, AGV_HELMET),
      PlainRow(TIRE, AGV_HELMET),
      PlainRow(JACKET, AGV_SHIELD),
      PlainRow("", HJC_SHIELD),
      PlainRow(HELMET_RULE, HJC_SHIELD) }
ValidatorFiles == {File(rows) : rows \in SeqsUpTo(ValidatorRows, MaxRows)}

ValidatorProofs ==
    LET KB       == "https://example.com/fitment"
        HjcYes   == ProofRow(AGV_HELMET, HJC_SHIELD, "verified", KB)
        AgvYes   == ProofRow(AGV_HELMET, AGV_SHIELD, "1", KB)
        KytYes   == ProofRow(" " \o AGV_HELMET, KYT_VISOR, "Yes", KB)
        KytBlank == ProofRow(AGV_HELMET, KYT_VISOR, "true", " ")
        AgvNo    == ProofRow(AGV_HELMET, AGV_SHIELD, "no", KB)
        NoId     == ProofRow(AGV_HELMET, "", "yes", KB)
    IN  {NoPath, ProofsAt(NoFile)}
          \cup {ProofsAt(File(rows)) :
                   rows \in { <<HjcYes, AgvYes>>, <<KytYes>>, <<KytBlank>>, <<AgvNo, NoId>> }}

\* inputs of one auto-fixer run: a rules file, a proofs file, the two switches
MaxFixRows == 3    \* most rows of a rules file handed to the auto-fixer
FixerRows ==
    { PlainRow(" " \o AGV_HELMET, HJC_SHIELD \o " "),
      PlainRow(AGV_HELMET, AGV_SHIELD),
      PlainRow(JACKET, AGV_SHIELD),
      PlainRow(HELMET_RULE, HJC_SHIELD) }
FixerFiles == {File(rows) : rows \in SeqsUpTo(FixerRows, MaxFixRows)} \cup {NoFile}

FixerProofs ==
    LET KB         == "https://example.com/fitment"
        HjcYes     == ProofRow(AGV_HELMET, HJC_SHIELD, "verified", KB)
        KytYes     == ProofRow(" " \o AGV_HELMET, KYT_VISOR, "Yes", KB)
        PinlockYes == ProofRow(AGV_HELMET, PINLOCK, "y", KB)
        TireYes    == ProofRow(AGV_HELMET, TIRE, "TRUE", KB)
        SelfYes    == ProofRow(AGV_HELMET, AGV_HELMET, "yes", KB)
        SenaYes    == ProofRow(AGV_HELMET, SENA, "yes", KB)
        KytBlank   == ProofRow(AGV_HELMET, KYT_VISOR, "true", " ")
        AgvNo      == ProofRow(AGV_HELMET, AGV_SHIELD, "no", KB)
        NoId       == ProofRow(AGV_HELMET, "", "yes", KB)
    IN  {NoPath, ProofsAt(NoFile)}
          \cup {ProofsAt(File(rows)) :
                   rows \in { <<KytYes, PinlockYes>>,
                              <<HjcYes, TireYes, SelfYes, SenaYes>>,
                              <<HjcYes, TireYes, SelfYes, SenaYes, KytYes>>,
                              <<KytBlank, AgvNo, NoId>> }}

\* inputs of the watcher
MaxSettle  == 2    \* longest settle period, in the time unit of the watcher
MaxSleep   == 2    \* longest time one sleep takes
MaxReports == 2    \* the file changes until the watcher has made this many reports
WatchStats == {"mtime 1, size 1", "mtime 2, size 2"}
WatchFiles ==
    {NoFile, File(<< PlainRow(AGV_HELMET, HJC_SHIELD) >>), File(<< PlainRow(AGV_HELMET, AGV_SHIELD) >>)}

\* inputs of the server in remote mode
MaxClock == 3    \* the last tick of the clock
SHEET_URL == "https://sheets.example.com/recommendations.csv"
RemoteStates ==
    {[CSV_URL |-> SHEET_URL, up |-> up, rows |-> rows] :
        up \in BOOLEAN, rows \in {FileA, FileB, <<>>}}

InitCache ==
    [explicit_map |-> <<>>, category_rules |-> <<>>, fetched_at |-> 0,
     source |-> "local", last_error |-> None]

\* ------------------------------------------------------------------------
\* Specifications
\* ------------------------------------------------------------------------

\* the server: request threads and file edits interleave
Init ==
    /\ csv \in ServerFiles
    /\ _RULES_CACHE = InitCache
    /\ _GLOBAL_REC_BY_TYPE = <<>>
    /\ frame = [t \in Threads |-> Idle]
    /\ validation = NoRun
    /\ autofix = NoRun
    /\ Untouched

Step(t) ==
    \/ \E products_param \in ServerParams : StartFbt(t, products_param)
    \/ StartReload(t)
    \/ LoadLocalCsv(t)
    \/ PoolClear(t)
    \/ PoolFill(t)
    \/ StoreCache(t)
    \/ Lookup(t)
    \/ Greedy(t)
    \/ BackfillDesired(t)
    \/ BackfillAny(t)
    \/ Accumulate(t)
    \/ Respond(t)
    \/ Finish(t)

Next == (\E t \in Threads : Step(t)) \/ EditCsv(ServerFiles)

Spec == Init /\ [][Next]_vars

\* the constraint engine alone: one call on a drawn source, raw list and pool
InitConstraints ==
    /\ csv = NoFile
    /\ _RULES_CACHE = InitCache
    /\ _GLOBAL_REC_BY_TYPE \in Pools
    /\ \E product_id \in SourceIds, recommendations \in RawLists :
          frame = [t \in Threads |->
                      IF t = 1
                      THEN [Idle EXCEPT !.pc = "constrain", !.product_id = product_id,
                                        !.recommendations = recommendations]
                      ELSE Idle]
    /\ validation = NoRun
    /\ autofix = NoRun
    /\ Untouched

NextConstraints == Greedy(1) \/ BackfillDesired(1) \/ BackfillAny(1)

SpecConstraints == InitConstraints /\ [][NextConstraints]_vars

MaxCallRaw == 1    \* longest raw list of a call checked for termination

\* a caller hands _apply_recommendation_constraints a source and a raw list
\* (line 453)
CallConstraints(t) ==
    /\ frame[t].pc = "idle"
    /\ \E product_id \in SourceIds, recommendations \in SeqsUpTo(RawRecs, MaxCallRaw) :
          frame' = [frame EXCEPT ![t] = [Idle EXCEPT !.pc = "constrain",
                                                    !.product_id = product_id,
                                                    !.recommendations = recommendations]]
    /\ UNCHANGED <<csv, _RULES_CACHE, _GLOBAL_REC_BY_TYPE, validation, autofix, outside>>

InitCall ==
    /\ csv = NoFile
    /\ _RULES_CACHE = InitCache
    /\ _GLOBAL_REC_BY_TYPE \in Pools
    /\ frame = [t \in Threads |-> Idle]
    /\ validation = NoRun
    /\ autofix = NoRun
    /\ Untouched

NextCall == CallConstraints(1) \/ Greedy(1) \/ BackfillDesired(1) \/ BackfillAny(1)

\* the call under a scheduler that never suspends the calling thread for good
SpecConstraintsFair == InitCall /\ [][NextCall]_vars /\ WF_vars(NextCall)

\* the server in remote mode: one thread, the clock and the remote sheet
InitRemote ==
    /\ csv \in {NoFile, File(FileA)}
    /\ _RULES_CACHE = InitCache
    /\ _GLOBAL_REC_BY_TYPE = <<>>
    /\ frame = [t \in Threads |-> Idle]
    /\ validation = NoRun
    /\ autofix = NoRun
    /\ clock = 0
    /\ remote \in RemoteStates
    /\ watch = NoRun
    /\ csv_stat = None

NextRemote ==
    \/ StartFbt(1, HELMET)
    \/ StartReload(1)
    \/ CacheCheck(1)
    \/ RemoteFetch(1)
    \/ RemoteError(1)
    \/ PoolClear(1)
    \/ PoolFill(1)
    \/ StoreCache(1)
    \/ Lookup(1)
    \/ Greedy(1)
    \/ BackfillDesired(1)
    \/ BackfillAny(1)
    \/ Accumulate(1)
    \/ Respond(1)
    \/ Finish(1)
    \/ Tick(MaxClock)
    \/ RemoteChange(RemoteStates)

SpecRemote == InitRemote /\ [][NextRemote]_vars

\* the watcher next to somebody editing the CSV
InitWatch ==
    /\ csv \in WatchFiles
    /\ csv_stat \in WatchStats \cup {None}
    /\ csv.exists <=> csv_stat # None
    /\ _RULES_CACHE = InitCache
    /\ _GLOBAL_REC_BY_TYPE = <<>>
    /\ frame = [t \in Threads |-> Idle]
    /\ validation = NoRun
    /\ autofix = NoRun
    /\ clock = 0
    /\ remote = NoRemote
    /\ \E settle \in 0..MaxSettle :
          watch = [pc |-> "start", settle |-> settle, previous |-> None,
                   pending_change_since |-> Unset, changes |-> 0, reports |-> 0,
                   last |-> NothingSaid]

\* the steps of the watcher's own thread
WatchStep == WatchStart \/ WatchPoll \/ WatchSettle \/ WatchSleep(MaxSleep)

NextWatch ==
    \/ WatchStart
    \/ WatchPoll
    \/ WatchSettle
    \/ WatchSleep(MaxSleep)
    \/ WatchInterrupt
    \/ TouchCsv(WatchFiles, WatchStats, MaxReports)

SpecWatch == InitWatch /\ [][NextWatch]_vars

\* the watcher is the only thread of its process and is never suspended for good
SpecWatchFair == SpecWatch /\ WF_vars(WatchStep)

\* one thread serving /api/fbt requests one after the other on a drawn file
InitFbt ==
    /\ csv \in DrawnFiles
    /\ _RULES_CACHE = InitCache
    /\ _GLOBAL_REC_BY_TYPE = <<>>
    /\ frame = [t \in Threads |-> Idle]
    /\ validation = NoRun
    /\ autofix = NoRun
    /\ Untouched

NextFbt ==
    \/ \E products_param \in DrawnParams : StartFbt(1, products_param)
    \/ LoadLocalCsv(1)
    \/ PoolClear(1)
    \/ PoolFill(1)
    \/ StoreCache(1)
    \/ Lookup(1)
    \/ Greedy(1)
    \/ BackfillDesired(1)
    \/ BackfillAny(1)
    \/ Accumulate(1)
    \/ Respond(1)
    \/ \E id \in DebugIds : StartDebug(1, id)
    \/ DebugLookup(1)
    \/ DebugRespond(1)
    \/ Finish(1)

SpecFbt == InitFbt /\ [][NextFbt]_vars

\* one run of validate_csv on a drawn rules file, proofs file and switches
InitValidate ==
    /\ csv \in ValidatorFiles
    /\ _RULES_CACHE = InitCache
    /\ _GLOBAL_REC_BY_TYPE = <<>>
    /\ frame = [t \in Threads |-> Idle]
    /\ \E strict_compatibility \in BOOLEAN, allow_heuristic_fit \in BOOLEAN,
          compatibility_proofs_path \in ValidatorProofs :
          validation = [pc |-> "start", row_i |-> 1,
                        strict_compatibility |-> strict_compatibility,
                        allow_heuristic_fit |-> allow_heuristic_fit,
                        compatibility_proofs_path |-> compatibility_proofs_path,
                        compatibility_proofs |-> <<>>,
                        seen_by_product |-> <<>>,
                        errors |-> <<>>, warnings |-> <<>>]
    /\ autofix = NoRun
    /\ Untouched

NextValidate == ValidateStart \/ ValidateRow \/ ValidateReturn

SpecValidate == InitValidate /\ [][NextValidate]_vars

\* one run of the auto-fixer on a drawn rules file, proofs file and switches
InitAutofix ==
    /\ csv \in FixerFiles
    /\ _RULES_CACHE = InitCache
    /\ _GLOBAL_REC_BY_TYPE = <<>>
    /\ frame = [t \in Threads |-> Idle]
    /\ validation = NoRun
    /\ \E dry_run \in BOOLEAN, in_place \in BOOLEAN, proofs_path \in FixerProofs :
          autofix = [pc |-> "start", idx |-> 1,
                     dry_run |-> dry_run, in_place |-> in_place,
                     proofs_path |-> proofs_path,
                     verified_by_product |-> <<>>, product_recs |-> <<>>,
                     global_candidates |-> <<>>, rows |-> <<>>,
                     changes |-> <<>>, unresolved |-> <<>>,
                     out |-> NoFile, backup |-> NoFile]
    /\ Untouched

NextAutofix == FixStart \/ FixRow \/ FixWrite

SpecAutofix == InitAutofix /\ [][NextAutofix]_vars

\* ------------------------------------------------------------------------
\* Properties
\* ------------------------------------------------------------------------

Ids(recs) == {recs[i].id : i \in 1..Len(recs)}

\* C1: the list _apply_recommendation_constraints builds never holds an
\* entry whose id is the source product id.
C1_NeverSourceId ==
    \A t \in Threads : \A i \in 1..Len(frame[t].selected) :
        frame[t].selected[i].id # frame[t].product_id

\* C2 as stated: for a jacket or pants source, every selected entry of type
\* jacket, pants or gloves has the source's brand token, or the source has none.
C2_SameBrandOnly ==
    \A t \in Threads : \A i \in 1..Len(frame[t].selected) :
        LET src == frame[t].product_id
            rid == frame[t].selected[i].id
        IN  (type_of(src) \in {"jacket", "pants"} /\ type_of(rid) \in {"jacket", "pants", "gloves"})
                => (brand_of(rid) = brand_of(src) \/ brand_of(src) = "")

\* C2 as amended: for a jacket or pants source, every selected entry of type
\* jacket, pants or gloves has the source's brand token, or the source has
\* none, or the entry is a glove of brand alpinestars that the backfill added
\* while the pool held no glove of the source's brand.
C2_SameBrandOrGloveFallback ==
    \A t \in Threads : \A i \in 1..Len(frame[t].selected) :
        LET src == frame[t].product_id
            rid == frame[t].selected[i].id
        IN  (type_of(src) \in {"jacket", "pants"} /\ type_of(rid) \in {"jacket", "pants", "gloves"})
                => \/ brand_of(rid) = brand_of(src)
                   \/ brand_of(src) = ""
                   \/ /\ i > frame[t].n_raw
                      /\ type_of(rid) = "gloves"
                      /\ brand_of(rid) = "alpinestars"
                      /\ \A g \in Range(DictGet(_GLOBAL_REC_BY_TYPE, "gloves", <<>>)) :
                             brand_of(g) # brand_of(src)

\* a jacket source got the alpinestars glove from the backfill, next to an
\* entry of its own brand taken from the raw list
C2_Witness ==
    \E t \in Threads :
        /\ frame[t].pc = "returned"
        /\ frame[t].product_id = JACKET
        /\ \E i \in 1..Len(frame[t].selected) :
              i > frame[t].n_raw /\ frame[t].selected[i].id = GLOVES
        /\ \E i \in 1..frame[t].n_raw : brand_of(frame[t].selected[i].id) = "klim"
        /\ \E r \in Range(frame[t].recommendations) : r.id = PANTS

\* C3: the list never holds more than 3 entries, in any phase.
C3_AtMostThree ==
    \A t \in Threads : Len(frame[t].selected) <= 3

\* the call returned a full list that the backfill completed
C3_Witness ==
    \E t \in Threads :
        /\ frame[t].pc = "returned"
        /\ Len(frame[t].selected) = 3
        /\ frame[t].n_raw \in {1, 2}
        /\ Cardinality(DictKeys(_GLOBAL_REC_BY_TYPE) \ {type_of(frame[t].selected[i].id) :
                                                          i \in 1..frame[t].n_raw}) >= 2

\* C4: no two entries of the list have the same id.
C4_NoDuplicateIds ==
    \A t \in Threads : \A i, j \in 1..Len(frame[t].selected) :
        i # j => frame[t].selected[i].id # frame[t].selected[j].id

\* the raw list repeated an id, and the result holds entries of the raw list
\* and of the backfill
C4_Witness ==
    \E t \in Threads :
        /\ frame[t].pc = "returned"
        /\ \E i, j \in 1..Len(frame[t].recommendations) :
              i < j /\ frame[t].recommendations[i].id = frame[t].recommendations[j].id
                    /\ frame[t].recommendations[i].id \in Ids(frame[t].selected)
        /\ frame[t].n_raw >= 1
        /\ Len(frame[t].selected) > frame[t].n_raw

\* the pool a load cycle of the server builds from one of its files
PoolOfFile(file) ==
    LET rules == _build_rules_from_reader(file.rows)
    IN  BuildPool(rules.explicit_map, rules.category_rules)

CompletePools == {PoolOfFile(file) : file \in ServerFiles}

\* the thread is about to read the pool (lines 326, 337)
ReadsPool(t) == frame[t].pc \in {"desired", "any"}

\* C5: a request that reads the pool finds a completely built pool, the one
\* of the previous load or the one of the new load, never a cleared or partly
\* filled one.
C5_ReaderSeesCompletePool ==
    \A t \in Threads : ReadsPool(t) => _GLOBAL_REC_BY_TYPE \in CompletePools

\* C6: a request that reads the pool finds the pool built from the rule
\* table it resolves against.
C6_PoolMatchesTable ==
    \A t \in Threads :
        ReadsPool(t) =>
            _GLOBAL_REC_BY_TYPE = BuildPool(frame[t].explicit_map, frame[t].category_rules)

\* the thread has answered an /api/fbt request with a non-empty cart
Answered(t) ==
    frame[t].pc = "done" /\ frame[t].route = "fbt" /\ frame[t].cart_product_ids # <<>>

\* C7: with the single explicit row helmet -> pinlock set and the cart
\* [helmet], resolving the helmet gives exactly the pinlock entry.
C7_ScenarioSingleEntry ==
    \A t \in Threads :
        ( /\ Answered(t)
          /\ csv = File(<<Row(HELMET, PINLOCK, "", "Explicit", "")>>)
          /\ frame[t].cart_product_ids = <<HELMET>> )
            => frame[t].related = << <<[id |-> PINLOCK, label |-> "", priority |-> ""]>> >>

\* C8: the support count of a recommended id is the number of distinct cart
\* ids whose resolved list holds it.
C8_CountIsDistinctCartItems ==
    \A t \in Threads :
        Answered(t) =>
            \A i \in 1..Len(frame[t].rec_info) :
                frame[t].rec_info[i].val.count =
                    Cardinality({c \in Range(frame[t].cart_product_ids) :
                        \E k \in 1..Len(frame[t].cart_product_ids) :
                            /\ frame[t].cart_product_ids[k] = c
                            /\ frame[t].rec_info[i].key \in Ids(frame[t].related[k])})

CountOf(t, id) == DictGet(frame[t].rec_info, id, [count |-> 0, label |-> "", priority |-> ""]).count
RankOf(t, id) ==
    PRIORITY_RANK(DictGet(frame[t].rec_info, id, [count |-> 0, label |-> "", priority |-> ""]).priority)

\* C9: of two consecutive entries of the answer the earlier has the higher
\* support count, or the same count and a priority rank not greater.
C9_OrderedByCountThenRank ==
    \A t \in Threads :
        Answered(t) =>
            LET out == frame[t].response.recommendations
            IN  \A i \in 1..(Len(out) - 1) :
                    \/ CountOf(t, out[i].id) > CountOf(t, out[i + 1].id)
                    \/ /\ CountOf(t, out[i].id) = CountOf(t, out[i + 1].id)
                       /\ RankOf(t, out[i].id) <= RankOf(t, out[i + 1].id)

\* an answer in which the count decided one pair and the rank another, in an
\* order that is not the order the ids were first seen in
C9_Witness ==
    \E t \in Threads :
        /\ Answered(t)
        /\ LET out == frame[t].response.recommendations
           IN  /\ \E i \in 1..(Len(out) - 1) : CountOf(t, out[i].id) > CountOf(t, out[i + 1].id)
               /\ \E i \in 1..(Len(out) - 1) :
                     /\ CountOf(t, out[i].id) = CountOf(t, out[i + 1].id)
                     /\ RankOf(t, out[i].id) < RankOf(t, out[i + 1].id)
               /\ \E i \in 1..Len(out) : out[i].id # frame[t].rec_info[i].key

\* C10: the answer holds no id of the cart and no id twice.
C10_NoCartIdNoDuplicate ==
    \A t \in Threads :
        Answered(t) =>
            LET out == frame[t].response.recommendations
            IN  /\ \A i \in 1..Len(out) : out[i].id \notin Range(frame[t].cart_product_ids)
                /\ \A i, j \in 1..Len(out) : i # j => out[i].id # out[j].id

\* an answer for a cart of two products, one of which the other's list
\* recommends, with an id that both lists recommend
C10_Witness ==
    \E t \in Threads :
        /\ Answered(t)
        /\ Len(frame[t].related) = 2
        /\ \E r \in Ids(frame[t].related[1]) \cup Ids(frame[t].related[2]) :
              r \in Range(frame[t].cart_product_ids)
        /\ \E r \in Ids(frame[t].related[1]) \cap Ids(frame[t].related[2]) :
              r \in Ids(frame[t].response.recommendations)

\* the thread is inside or just past get_recommendations for one cart item
Resolving(t) == frame[t].pc \in {"constrain", "desired", "any", "returned"}

\* C11: a product id that is a key of the explicit map is resolved from its
\* explicit list, whatever category rule its text matches.
C11_ExplicitBeatsCategory ==
    \A t \in Threads :
        (Resolving(t) /\ frame[t].product_id \in DictKeys(frame[t].explicit_map))
            => frame[t].recommendations =
                   DictGet(frame[t].explicit_map, frame[t].product_id, <<>>)

\* an explicit id that a category rule with another list matches as well
C11_Witness ==
    \E t \in Threads :
        /\ frame[t].pc = "returned"
        /\ frame[t].product_id \in DictKeys(frame[t].explicit_map)
        /\ \E i \in category_hits(frame[t].product_id, frame[t].category_rules) :
              frame[t].category_rules[i].val # frame[t].recommendations
        /\ frame[t].selected # <<>>

\* every id the rule table names: recommendation ids of explicit and of
\* category rules, and explicit source ids
TableIds(explicit_map, category_rules) ==
    {r.id : r \in UNION {Range(explicit_map[i].val) : i \in 1..Len(explicit_map)}}
      \cup DictKeys(explicit_map)
      \cup {r.id : r \in UNION {Range(category_rules[i].val) : i \in 1..Len(category_rules)}}

\* where the walk of lines 218-227 meets the id first
FirstSeen(explicit_map, category_rules, id) ==
    LET walk == PoolCandidates(explicit_map, category_rules)
    IN  First({i \in 1..Len(walk) : walk[i] = id})

\* the thread has just rebuilt the pool from the table it loaded
Refreshed(t) == frame[t].pc = "store" /\ csv.exists

\* C12: the pool built from a table has one bucket per known type of the
\* table's ids, each bucket holds exactly the table's ids of its type, once
\* each, in the order the walk first met them.
C12_PoolIsTableIdsByType ==
    \A t \in Threads :
        Refreshed(t) =>
            LET em   == frame[t].explicit_map
                cr   == frame[t].category_rules
                ids  == TableIds(em, cr)
                pool == _GLOBAL_REC_BY_TYPE
            IN  /\ DictKeys(pool) = {type_of(id) : id \in ids} \ {"unknown"}
                /\ \A k, l \in 1..Len(pool) : k # l => pool[k].key # pool[l].key
                /\ \A k \in 1..Len(pool) :
                      /\ Range(pool[k].val) = {id \in ids : type_of(id) = pool[k].key}
                      /\ \A a, b \in 1..Len(pool[k].val) :
                            a < b => /\ pool[k].val[a] # pool[k].val[b]
                                     /\ FirstSeen(em, cr, pool[k].val[a])
                                            < FirstSeen(em, cr, pool[k].val[b])

\* a table with an id of unknown type, an id named twice and two ids of one type
C12_Witness ==
    \E t \in Threads :
        /\ Refreshed(t)
        /\ LET em   == frame[t].explicit_map
               cr   == frame[t].category_rules
               walk == PoolCandidates(em, cr)
           IN  /\ \E id \in TableIds(em, cr) : type_of(id) = "unknown"
               /\ \E i, j \in 1..Len(walk) : i < j /\ walk[i] = walk[j]
               /\ \E k \in 1..Len(_GLOBAL_REC_BY_TYPE) : Len(_GLOBAL_REC_BY_TYPE[k].val) >= 2

\* ------------------------------------------------------------------------
\* Validator properties
\* ------------------------------------------------------------------------

\* rows of the rules file the validator has gone through (data row n is
\* reported as row n + 1)
ValidatedRows ==
    IF validation.pc \in {"rows", "done"}
    THEN {n \in 1..Len(csv.rows) : n < validation.row_i}
    ELSE {}

SourceOf(n) == Strip(csv.rows[n].pid)
RecOf(n)    == Strip(csv.rows[n].rid)

\* both ids present and both classified to a type other than "unknown"
BothTyped(n) ==
    /\ SourceOf(n) # "" /\ RecOf(n) # ""
    /\ detected_type(SourceOf(n)) # "unknown"
    /\ detected_type(RecOf(n)) # "unknown"

OutsideAllowed(n) ==
    detected_type(RecOf(n)) \notin COMPLEMENTARY_TYPES(detected_type(SourceOf(n)))

UnusualPairWarned(n) ==
    /\ SourceOf(n) # "" /\ RecOf(n) # ""
    /\ msg_unusual_pair(n + 1, SourceOf(n), RecOf(n)) \in Range(validation.warnings)

\* C13 as stated: every validated row whose source and recommendation both
\* classify to a known type and whose recommendation type is outside the
\* source type's allowed-complement set carries an 'unusual pair' warning,
\* whatever the source type is.
C13_UnusualPairAnySource ==
    \A n \in ValidatedRows :
        (BothTyped(n) /\ OutsideAllowed(n)) => UnusualPairWarned(n)

\* C13: every validated row that is not a category-rule row, whose source
\* classifies to one of the core types pants, jacket, gloves, boots, helmet
\* and whose recommendation classifies to a known type outside the source
\* type's allowed-complement set carries an 'unusual pair' warning, and no
\* other row carries one.
C13_UnusualPairCoreSource ==
    \A n \in ValidatedRows :
        ( /\ BothTyped(n)
          /\ ~is_category_rule(SourceOf(n))
          /\ detected_type(SourceOf(n)) \in CORE_COMPLEMENTARY_TYPES
          /\ OutsideAllowed(n) ) <=> UnusualPairWarned(n)

\* a jacket row recommending a helmet accessory has been validated and warned
C13_Witness ==
    \E n \in ValidatedRows :
        /\ BothTyped(n)
        /\ ~is_category_rule(SourceOf(n))
        /\ detected_type(SourceOf(n)) = "jacket"
        /\ OutsideAllowed(n)
        /\ UnusualPairWarned(n)

\* a helmet source with a fit-sensitive recommendation on a row that is not a
\* category-rule row
FitChecked(n) ==
    /\ SourceOf(n) # "" /\ RecOf(n) # ""
    /\ ~is_category_rule(SourceOf(n))
    /\ detected_type(SourceOf(n)) = "helmet"
    /\ fit_sensitive(RecOf(n))

\* the known-brand sets of source and recommendation are non-empty and disjoint
BrandDisjoint(n) ==
    LET src_brands == helmet_identity(SourceOf(n)).brands
        rec_brands == helmet_identity(RecOf(n)).brands
    IN  src_brands # {} /\ rec_brands # {} /\ src_brands \cap rec_brands = {}

BrandMismatchReported(n) ==
    \E k \in 1..Len(validation.errors) :
        /\ validation.errors[k] = msg_brand_mismatch(n + 1, SourceOf(n), RecOf(n))
        /\ categorize_issue(validation.errors[k]) = "definite mismatch"

\* C14: every validated non-category row with a helmet source, a fit-sensitive
\* recommendation and non-empty disjoint known-brand sets has an error of
\* category 'definite mismatch', whatever the strict switch, the proofs and
\* the heuristic-fit allowance are.
C14_BrandMismatchAlwaysError ==
    \A n \in ValidatedRows :
        (FitChecked(n) /\ BrandDisjoint(n)) => BrandMismatchReported(n)

\* the mismatch is reported in a non-strict run that holds a verified proof
\* with a source for the very pair
C14_Witness ==
    \E n \in ValidatedRows :
        /\ FitChecked(n) /\ BrandDisjoint(n)
        /\ ~validation.strict_compatibility
        /\ has_verified_source(validation.compatibility_proofs, SourceOf(n), RecOf(n))
        /\ BrandMismatchReported(n)

\* no proof of the pair is both verified and has a non-empty source
Unproven(n) ==
    ~\E k \in 1..Len(validation.compatibility_proofs) :
        /\ validation.compatibility_proofs[k].key = <<SourceOf(n), RecOf(n)>>
        /\ validation.compatibility_proofs[k].val.verified
        /\ validation.compatibility_proofs[k].val.source # ""

\* source and recommendation share a known-brand token or a model token
TokenOverlap(n) ==
    LET src == helmet_identity(SourceOf(n))
        rec == helmet_identity(RecOf(n))
    IN  (src.brands \cap rec.brands # {}) \/ (src.models \cap rec.models # {})

MissingProofError(n) ==
    \E k \in 1..Len(validation.errors) :
        /\ validation.errors[k] = msg_missing_proof(n + 1, SourceOf(n), RecOf(n))
        /\ categorize_issue(validation.errors[k]) = "missing proof"

MissingProofWarning(n) ==
    msg_heuristic_fit(n + 1, SourceOf(n), RecOf(n)) \in Range(validation.warnings)

\* C15: for a validated row with a helmet source and a fit-sensitive
\* recommendation that has no verified proof with a non-empty source, a strict
\* run reports a 'missing proof' error, except that with the heuristic-fit
\* allowance enabled and a brand-token or model-token overlap it reports a
\* warning instead; a non-strict run reports neither.
C15_MissingProofByMode ==
    \A n \in ValidatedRows :
        (FitChecked(n) /\ Unproven(n)) =>
            LET downgrade == validation.allow_heuristic_fit /\ TokenOverlap(n)
            IN  /\ MissingProofError(n) <=> (validation.strict_compatibility /\ ~downgrade)
                /\ MissingProofWarning(n) <=> (validation.strict_compatibility /\ downgrade)

\* one strict run with the allowance enabled has downgraded an unproven pair
\* with an overlap and kept the error for an unproven pair without one
C15_Witness ==
    /\ validation.strict_compatibility /\ validation.allow_heuristic_fit
    /\ \E n \in ValidatedRows :
          FitChecked(n) /\ Unproven(n) /\ TokenOverlap(n) /\ MissingProofWarning(n)
    /\ \E n \in ValidatedRows :
          FitChecked(n) /\ Unproven(n) /\ ~TokenOverlap(n) /\ MissingProofError(n)

\* the errors and warnings filed so far for data row n
IssuesOf(n) ==
    {message \in Range(validation.errors) \cup Range(validation.warnings) :
        /\ Len(message) >= Len(RowPrefix(n + 1))
        /\ SubSeq(message, 1, Len(RowPrefix(n + 1))) = RowPrefix(n + 1)}

\* an earlier row of the file holds the same (source, recommendation) pair
SeenEarlier(n) ==
    \E j \in 1..(n - 1) : SourceOf(j) = SourceOf(n) /\ RecOf(j) = RecOf(n)

\* C16: a validated row with an empty source or recommendation id has the
\* missing-id error and nothing else; a row whose source equals its
\* recommendation has the self-recommendation error; a row whose pair occurred
\* in an earlier row has the duplicate error.
C16_StructuralErrors ==
    \A n \in ValidatedRows :
        IF SourceOf(n) = "" \/ RecOf(n) = ""
        THEN /\ msg_missing(n + 1) \in Range(validation.errors)
             /\ IssuesOf(n) = {msg_missing(n + 1)}
        ELSE /\ (SourceOf(n) = RecOf(n)) =>
                    msg_self(n + 1, SourceOf(n)) \in Range(validation.errors)
             /\ SeenEarlier(n) =>
                    msg_duplicate(n + 1, SourceOf(n), RecOf(n)) \in Range(validation.errors)

\* a file that repeats a self-recommendation row has been validated to the
\* end: the second row has both the self-recommendation and the duplicate error
C16_Witness ==
    /\ validation.pc = "done"
    /\ \E n \in ValidatedRows :
          /\ SourceOf(n) # "" /\ SourceOf(n) = RecOf(n) /\ SeenEarlier(n)
          /\ msg_self(n + 1, SourceOf(n)) \in Range(validation.errors)
          /\ msg_duplicate(n + 1, SourceOf(n), RecOf(n)) \in Range(validation.errors)

\* ------------------------------------------------------------------------
\* Auto-fixer properties
\* ------------------------------------------------------------------------

\* the rows the auto-fixer read: the CSV, or its backup once --in-place has
\* overwritten the CSV
OriginalRows == IF autofix.backup.exists THEN autofix.backup.rows ELSE csv.rows

\* the rec ids a product has in the rows other than data row n
OtherRecs(rows, product_id, n) ==
    {Strip(rows[j].rid) : j \in {k \in 1..Len(rows) :
                                    k # n /\ Strip(rows[k].pid) = product_id}}

\* every id pick_replacement can be handed for a product
CandidatesOf(product_id) ==
    Range(autofix.global_candidates) \cup DictGet(autofix.verified_by_product, product_id, {})

\* C17: no replacement the auto-fixer has substituted equals the source id,
\* is a rec id the source has in another row (of the rows read or of the rows
\* as they now are), is a definite mismatch for the source, or has a type
\* outside the source type's allowed-complement set.
C17_NoRejectedReplacement ==
    \A k \in 1..Len(autofix.changes) :
        LET n           == autofix.changes[k][1] - 1
            product_id  == autofix.changes[k][2]
            replacement == autofix.changes[k][4]
        IN  /\ replacement # product_id
            /\ replacement \notin OtherRecs(OriginalRows, product_id, n)
            /\ replacement \notin OtherRecs(autofix.rows, product_id, n)
            /\ ~is_definite_mismatch(product_id, replacement)
            /\ detected_type(replacement) \in COMPLEMENTARY_TYPES(detected_type(product_id))

\* a replacement has been substituted although the candidates held the source
\* itself, a rec id of another row of the source, a definite mismatch and an
\* id of a type outside the allowed set
C17_Witness ==
    \E k \in 1..Len(autofix.changes) :
        LET n          == autofix.changes[k][1] - 1
            product_id == autofix.changes[k][2]
        IN  /\ Strip(autofix.rows[n].rid) = autofix.changes[k][4]
            /\ product_id \in CandidatesOf(product_id)
            /\ CandidatesOf(product_id) \cap OtherRecs(OriginalRows, product_id, n) # {}
            /\ \E c \in CandidatesOf(product_id) : is_definite_mismatch(product_id, c)
            /\ \E c \in CandidatesOf(product_id) :
                  /\ c # product_id
                  /\ detected_type(c) \notin COMPLEMENTARY_TYPES(detected_type(product_id))

\* the value pick_replacement returned in the step that handled a row: the
\* replacement of the change the step recorded, None if it recorded none
Returned ==
    IF Len(autofix'.changes) > Len(autofix.changes)
    THEN autofix'.changes[Len(autofix'.changes)][4]
    ELSE None

\* C18: whenever the loop hands a row to pick_replacement, the call returns a
\* verified candidate of the highest score among the verified candidates if
\* some verified candidate scores above 0, whatever the global candidates
\* score; otherwise a global candidate of the highest score among the global
\* candidates if that score is above 0; otherwise None.
C18_VerifiedBeforeGlobal ==
    [][ ( /\ autofix.pc = "rows"
          /\ autofix.idx <= Len(autofix.rows)
          /\ ~skipped(autofix.rows[autofix.idx]) ) =>
        LET product_id == Strip(autofix.rows[autofix.idx].pid)
            rec_id     == Strip(autofix.rows[autofix.idx].rid)
            existing   == DictGet(autofix.product_recs, product_id, {}) \ {rec_id}
            verified   == DictGet(autofix.verified_by_product, product_id, {})
            global     == Range(autofix.global_candidates)
            score      == [c \in verified \cup global |->
                              score_candidate(product_id, rec_id, c, existing)]
        IN  IF \E c \in verified : score[c] > 0
            THEN /\ Returned \in verified
                 /\ \A d \in verified : score[d] <= score[Returned]
            ELSE IF \E c \in global : score[c] > 0
            THEN /\ Returned \in global
                 /\ \A d \in global : score[d] <= score[Returned]
            ELSE Returned = None ]_vars

\* a row has been given a verified replacement although a global candidate
\* that is not verified scores higher for it
C18_Witness ==
    \E k \in 1..Len(autofix.changes) :
        LET n           == autofix.changes[k][1] - 1
            product_id  == autofix.changes[k][2]
            rec_id      == autofix.changes[k][3]
            replacement == autofix.changes[k][4]
            existing    == OtherRecs(OriginalRows, product_id, n)
            verified    == DictGet(autofix.verified_by_product, product_id, {})
        IN  /\ replacement \in verified
            /\ \E g \in Range(autofix.global_candidates) \ verified :
                  score_candidate(product_id, rec_id, g, existing)
                      > score_candidate(product_id, rec_id, replacement, existing)

\* a definite-mismatch row: both ids present, not a category-rule row, and
\* is_definite_mismatch holds of the stripped ids
MismatchRow(row) == ~skipped(row)

\* the entries of a list of the auto-fixer that report data row n
EntriesOf(list, n) == {k \in 1..Len(list) : list[k][1] = n + 1}

\* the rows main has written, if it has written any
Written ==
    IF autofix.pc # "done" \/ autofix.dry_run THEN NoFile
    ELSE IF autofix.in_place THEN csv
    ELSE autofix.out

\* C19, the rows: a row that is not a definite mismatch is in neither list and
\* is kept as read; a definite-mismatch row the loop has handled is in exactly
\* one of the changed list and the unresolved list, with only its
\* recommendation id replaced if changed and kept as read if unresolved; the
\* file written holds exactly these rows.
C19_RowsAndLists ==
    /\ autofix.pc \in {"rows", "done"} =>
          /\ Len(autofix.rows) = Len(OriginalRows)
          /\ \A n \in 1..Len(autofix.rows) :
                LET changed    == EntriesOf(autofix.changes, n)
                    unresolved == EntriesOf(autofix.unresolved, n)
                IN  IF MismatchRow(OriginalRows[n]) /\ n < autofix.idx
                    THEN /\ Cardinality(changed) + Cardinality(unresolved) = 1
                         /\ \A k \in changed :
                               /\ autofix.changes[k][3] = Strip(OriginalRows[n].rid)
                               /\ autofix.rows[n] =
                                     [OriginalRows[n] EXCEPT !.rid = autofix.changes[k][4]]
                         /\ \A k \in unresolved :
                               /\ autofix.unresolved[k][3] = Strip(OriginalRows[n].rid)
                               /\ autofix.rows[n] = OriginalRows[n]
                    ELSE /\ changed = {} /\ unresolved = {}
                         /\ autofix.rows[n] = OriginalRows[n]
    /\ Written.exists => Written.rows = autofix.rows

\* C19, the decision: the step that handles a definite-mismatch row changes it
\* exactly if some verified or global candidate scores above 0 for it, and
\* then to a candidate scoring above 0.
C19_ChangedIffPositive ==
    [][ ( /\ autofix.pc = "rows"
          /\ autofix.idx <= Len(autofix.rows)
          /\ MismatchRow(autofix.rows[autofix.idx]) ) =>
        LET product_id == Strip(autofix.rows[autofix.idx].pid)
            rec_id     == Strip(autofix.rows[autofix.idx].rid)
            existing   == DictGet(autofix.product_recs, product_id, {}) \ {rec_id}
            candidates == CandidatesOf(product_id)
            score      == [c \in candidates |->
                              score_candidate(product_id, rec_id, c, existing)]
        IN  IF \E c \in candidates : score[c] > 0
            THEN /\ Returned \in candidates
                 /\ score[Returned] > 0
                 /\ autofix'.unresolved = autofix.unresolved
            ELSE /\ autofix'.changes = autofix.changes
                 /\ autofix'.unresolved =
                       Append(autofix.unresolved, <<autofix.idx + 1, product_id, rec_id>>) ]_vars

\* C19: the auto-fixer changes the Recommended Product ID only of
\* definite-mismatch rows for which a positive-scoring replacement exists,
\* writes every other row unchanged, and lists every definite-mismatch row
\* without a positive-scoring replacement as unresolved with its id kept, so
\* each definite-mismatch row ends in exactly one of the two lists.
C19_OnlyMismatchesChanged == []C19_RowsAndLists /\ C19_ChangedIffPositive

\* a run that wrote a file has changed one definite-mismatch row, left another
\* unresolved and kept a row that is no definite mismatch
C19_Witness ==
    /\ Written.exists
    /\ \E n \in 1..Len(autofix.rows) :
          MismatchRow(OriginalRows[n]) /\ EntriesOf(autofix.changes, n) # {}
    /\ \E n \in 1..Len(autofix.rows) :
          MismatchRow(OriginalRows[n]) /\ EntriesOf(autofix.unresolved, n) # {}
    /\ \E n \in 1..Len(autofix.rows) :
          ~MismatchRow(OriginalRows[n]) /\ Written.rows[n] = OriginalRows[n]

\* data row n of the rows read has both ids and is not a category-rule row
ProductRow(n) ==
    /\ Strip(OriginalRows[n].pid) # "" /\ Strip(OriginalRows[n].rid) # ""
    /\ ~is_category_rule(Strip(OriginalRows[n].pid))

\* the auto-fixer has treated data row n as a definite mismatch
TreatedAsMismatch(n) ==
    EntriesOf(autofix.changes, n) \cup EntriesOf(autofix.unresolved, n) # {}

\* C20: once the auto-fixer has gone through a file, for every row with both
\* ids that is not a category-rule row: the auto-fixer has treated it as a
\* definite mismatch, and is_definite_mismatch holds of its ids, exactly if
\* the validator run on the same file and proofs, strict or not, with or
\* without the heuristic-fit allowance, reports the 'helmet brand mismatch'
\* error for that row.
C20_FixerAgreesWithValidator ==
    autofix.pc = "done" =>
        \A strict_compatibility \in BOOLEAN, allow_heuristic_fit \in BOOLEAN :
            LET errors == Range(validate_csv(OriginalRows, strict_compatibility,
                                             autofix.proofs_path, allow_heuristic_fit).errors)
            IN  \A n \in 1..Len(OriginalRows) :
                    ProductRow(n) =>
                        LET product_id == Strip(OriginalRows[n].pid)
                            rec_id     == Strip(OriginalRows[n].rid)
                            reported   == msg_brand_mismatch(n + 1, product_id, rec_id) \in errors
                        IN  /\ TreatedAsMismatch(n) <=> reported
                            /\ is_definite_mismatch(product_id, rec_id) <=> reported

\* a finished run over a file that holds a row treated as a definite mismatch
\* and a row with a fit-sensitive recommendation that was not
C20_Witness ==
    /\ autofix.pc = "done"
    /\ \E n \in 1..Len(OriginalRows) : ProductRow(n) /\ TreatedAsMismatch(n)
    /\ \E n \in 1..Len(OriginalRows) :
          /\ ProductRow(n) /\ ~TreatedAsMismatch(n)
          /\ fit_sensitive(Strip(OriginalRows[n].rid))


\* the thread is inside get_recommendations: the match or the constraint engine
InResolution(t) == frame[t].pc \in {"lookup", "constrain", "desired", "any"}

\* the cart items of thread t resolved so far that asked for the same id
SameIdResolved(t) ==
    {<<i, j>> \in (1..Len(frame[t].related)) \X (1..Len(frame[t].related)) :
        frame[t].cart_product_ids[i] = frame[t].cart_product_ids[j]}

\* resolving twice against one table and pool gives one list
C21_SameIdSameList ==
    \A t \in Threads : \A p \in SameIdResolved(t) :
        frame[t].related[p[1]] = frame[t].related[p[2]]

\* a step of the resolution leaves the table, its entries and the pool alone
C21_ResolutionFrame ==
    [][\A t \in Threads :
          (InResolution(t) /\ frame'[t] # frame[t]) =>
              /\ frame'[t].explicit_map = frame[t].explicit_map
              /\ frame'[t].category_rules = frame[t].category_rules
              /\ _RULES_CACHE' = _RULES_CACHE
              /\ _GLOBAL_REC_BY_TYPE' = _GLOBAL_REC_BY_TYPE]_vars

\* C21: every step of get_recommendations and of the constraint engine
\* leaves the explicit map, the category rules, their entries and the global
\* pool as they were, and two resolutions of one id in a request, against the
\* same table and pool, return the same list.
C21_ResolutionIsPure == []C21_SameIdSameList /\ C21_ResolutionFrame

\* a cart that names one explicit id twice was resolved to two lists that the
\* backfill completed, from a raw list that was not in priority order
C21_Witness ==
    \E t \in Threads :
        /\ Answered(t)
        /\ Len(frame[t].related) = 2
        /\ frame[t].cart_product_ids[1] = frame[t].cart_product_ids[2]
        /\ LET raw == DictGet(frame[t].explicit_map, frame[t].cart_product_ids[1], <<>>)
           IN  /\ raw # <<>>
               /\ raw # _sort_by_priority(raw)
               /\ Len(frame[t].related[1]) > Len(raw)


\* C22: in every phase of _apply_recommendation_constraints the entries
\* selected so far have pairwise distinct product types, 'unknown' being one
\* type, and seen_types is the set of their types.
C22_DistinctTypes ==
    \A t \in Threads :
        /\ \A i, j \in 1..Len(frame[t].selected) :
              i # j => type_of(frame[t].selected[i].id) # type_of(frame[t].selected[j].id)
        /\ frame[t].seen_types = {type_of(id) : id \in Ids(frame[t].selected)}

\* the call returned a list that holds a raw entry, lacks a raw entry of the
\* same type and of better priority than a later raw entry it holds, and
\* holds an entry of the backfill
C22_Witness ==
    \E t \in Threads :
        /\ frame[t].pc = "returned"
        /\ LET ordered == _sort_by_priority(frame[t].recommendations)
               taken   == Ids(SubSeq(frame[t].selected, 1, frame[t].n_raw))
           IN  \E i, j, k \in 1..Len(ordered) :
                  /\ i < j /\ j < k
                  /\ ordered[i].id \in taken
                  /\ ordered[j].id \notin Ids(frame[t].selected)
                  /\ type_of(ordered[j].id) = type_of(ordered[i].id)
                  /\ ordered[k].id \in taken
                  /\ PRIORITY_RANK(ordered[j].priority) < PRIORITY_RANK(ordered[k].priority)
        /\ Len(frame[t].selected) > frame[t].n_raw


\* the brand-consistency rule of the raw-list filter, for source src and id rid
PassesBrandFilter(src, rid) ==
    ~ ( /\ type_of(src) \in {"jacket", "pants"}
        /\ type_of(rid) \in {"jacket", "pants", "gloves"}
        /\ brand_of(src) # ""
        /\ brand_of(rid) # ""
        /\ brand_of(src) # brand_of(rid) )

\* the pool's candidates of type d, in pool order
PoolOf(d) == DictGet(_GLOBAL_REC_BY_TYPE, d, <<>>)

\* the first candidate of type d in pool order that frame f has not selected
\* and that passes the brand filter, or ""
FirstPassing(f, d) ==
    FirstId(PoolOf(d), {i \in 1..Len(PoolOf(d)) :
        PoolOf(d)[i] \notin f.selected_ids /\ PassesBrandFilter(f.product_id, PoolOf(d)[i])})

\* the first glove of brand alpinestars in pool order that frame f has not
\* selected, or "", for a jacket or pants source; "" for any other case
FirstFallbackGlove(f, d) ==
    IF type_of(f.product_id) \in {"jacket", "pants"} /\ d = "gloves"
    THEN FirstId(PoolOf(d), {i \in 1..Len(PoolOf(d)) :
             PoolOf(d)[i] \notin f.selected_ids /\ brand_of(PoolOf(d)[i]) = "alpinestars"})
    ELSE ""

\* one step of the desired-type backfill of thread t, from f to g, where
\* Pick(f, d) is the candidate the backfill is to add for desired type d:
\* an entry is added only below the limit, for the first desired type in
\* table order that is unused and has a candidate, and it is that candidate;
\* the phase ends at the limit or when no desired type is left to fill
DesiredStepFollows(f, g, picks) ==
    LET desired_types == RUNTIME_COMPLEMENTARY_TYPES(type_of(f.product_id))
        open == {k \in 1..Len(desired_types) :
                    desired_types[k] \notin f.seen_types /\ picks[k] # ""}
    IN  /\ Len(g.selected) > Len(f.selected) =>
              /\ Len(f.selected) < PER_PRODUCT_RECOMMENDATION_LIMIT
              /\ open # {}
              /\ g.selected = Append(f.selected, BackfillEntry(picks[First(open)]))
              /\ g.seen_types = f.seen_types \cup {desired_types[First(open)]}
              /\ Len(g.selected) >= PER_PRODUCT_RECOMMENDATION_LIMIT => g.pc # "desired"
        /\ Len(g.selected) = Len(f.selected) => g.selected = f.selected
        /\ g.pc # "desired" =>
              \/ Len(g.selected) >= PER_PRODUCT_RECOMMENDATION_LIMIT
              \/ \A k \in 1..Len(desired_types) :
                    desired_types[k] \in g.seen_types \/ picks[k] = ""

\* C23 as stated: the desired-type backfill visits the desired types in table
\* order, skips the used ones, and adds for each the first pool candidate not
\* yet selected that passes the brand filter, until 3 entries are selected.
C23_FirstPassingCandidate ==
    [][\A t \in Threads :
          (frame[t].pc = "desired" /\ frame'[t] # frame[t]) =>
              LET desired_types == RUNTIME_COMPLEMENTARY_TYPES(type_of(frame[t].product_id))
              IN  DesiredStepFollows(frame[t], frame'[t],
                      [k \in 1..Len(desired_types) |-> FirstPassing(frame[t], desired_types[k])])]_vars

\* C23 as amended: the same, except that for a jacket or pants source and the
\* desired type gloves, when no unselected glove passes the brand filter, the
\* candidate added is the first unselected pool glove of brand alpinestars.
C23_FirstPassingOrFallbackGlove ==
    [][\A t \in Threads :
          (frame[t].pc = "desired" /\ frame'[t] # frame[t]) =>
              LET desired_types == RUNTIME_COMPLEMENTARY_TYPES(type_of(frame[t].product_id))
              IN  DesiredStepFollows(frame[t], frame'[t],
                      [k \in 1..Len(desired_types) |->
                          IF FirstPassing(frame[t], desired_types[k]) # ""
                          THEN FirstPassing(frame[t], desired_types[k])
                          ELSE FirstFallbackGlove(frame[t], desired_types[k])])]_vars

\* the call returned 3 entries: one of the raw list, of a desired type, and
\* two of the backfill, in the order of the desired types while the pool
\* holds their types in the opposite order
C23_Witness ==
    \E t \in Threads :
        /\ frame[t].pc = "returned"
        /\ frame[t].n_raw = 1
        /\ Len(frame[t].selected) = 3
        /\ LET desired_types == RUNTIME_COMPLEMENTARY_TYPES(type_of(frame[t].product_id))
               TablePos(d) == CHOOSE k \in 1..Len(desired_types) : desired_types[k] = d
               PoolPos(d)  == CHOOSE k \in 1..Len(_GLOBAL_REC_BY_TYPE) :
                                  _GLOBAL_REC_BY_TYPE[k].key = d
               a == type_of(frame[t].selected[2].id)
               b == type_of(frame[t].selected[3].id)
           IN  /\ {type_of(frame[t].selected[1].id), a, b} \subseteq Range(desired_types)
               /\ TablePos(a) < TablePos(b)
               /\ PoolPos(b) < PoolPos(a)


\* thread t is about to backfill gloves for a jacket or pants source
BackfillsGloves(t) ==
    LET f == frame[t]
        desired_types == RUNTIME_COMPLEMENTARY_TYPES(type_of(f.product_id))
    IN  /\ f.pc = "desired"
        /\ type_of(f.product_id) \in {"jacket", "pants"}
        /\ f.desired_i \in 1..Len(desired_types)
        /\ desired_types[f.desired_i] = "gloves"
        /\ "gloves" \notin f.seen_types

\* the pool gloves frame f has not selected whose brand is brand, in pool order
FreeGlovesOf(f, brand) ==
    KeepAt(PoolOf("gloves"), {i \in 1..Len(PoolOf("gloves")) :
        PoolOf("gloves")[i] \notin f.selected_ids /\ brand_of(PoolOf("gloves")[i]) = brand})

\* C24: when the backfill fills gloves for a jacket or pants source, it adds
\* the first unselected pool glove of the source's brand if there is one;
\* otherwise the first unselected pool glove of brand alpinestars if there is
\* one; otherwise what the generic brand-filtered scan finds, which may be
\* nothing.
C24_GlovePreference ==
    [][\A t \in Threads :
          (BackfillsGloves(t) /\ frame'[t] # frame[t]) =>
              LET f    == frame[t]
                  own  == FreeGlovesOf(f, brand_of(f.product_id))
                  star == FreeGlovesOf(f, "alpinestars")
                  rid  == IF own # <<>> THEN own[1]
                          ELSE IF star # <<>> THEN star[1]
                          ELSE FirstPassing(f, "gloves")
              IN  frame'[t].selected =
                      IF rid # "" THEN Append(f.selected, BackfillEntry(rid)) ELSE f.selected]_vars

\* a jacket source got its own brand's glove from the backfill although a
\* glove of brand alpinestars comes first in the pool
C24_Witness ==
    \E t \in Threads :
        /\ frame[t].pc = "returned"
        /\ type_of(frame[t].product_id) = "jacket"
        /\ \E i \in 1..Len(frame[t].selected) :
              /\ i > frame[t].n_raw
              /\ type_of(frame[t].selected[i].id) = "gloves"
              /\ brand_of(frame[t].selected[i].id) = brand_of(frame[t].product_id)
              /\ brand_of(PoolOf("gloves")[1]) = "alpinestars"
              /\ brand_of(frame[t].product_id) # "alpinestars"
              /\ PoolOf("gloves")[1] \notin frame[t].selected_ids


\* the thread has answered a /api/debug/product request that named an id
DebugAnswered(t) ==
    frame[t].pc = "done" /\ frame[t].route = "debug" /\ frame[t].product_id # ""

\* the category rules, in table order, one of whose keywords the lowercased id contains
RulesContaining(t) ==
    {i \in 1..Len(frame[t].category_rules) :
        \E kw \in Range(frame[t].category_rules[i].key) :
            Contains(Lower(frame[t].product_id), kw)}

\* C25: the debug resolution of an id returns the list get_recommendations
\* returns for it on the same table and pool; it reports 'explicit' and the
\* id when the id is a key of the explicit map, otherwise 'category' and the
\* keyword list of the first category rule in table order one of whose
\* keywords the lowercased id contains, otherwise 'none', no rule and an
\* empty list.
C25_DebugAgreesWithResolution ==
    \A t \in Threads :
        DebugAnswered(t) =>
            LET f   == frame[t]
                out == f.response
            IN  /\ out.recommendations =
                       get_recommendations(f.product_id, f.explicit_map, f.category_rules)
                /\ IF f.product_id \in DictKeys(f.explicit_map)
                   THEN out.match_type = "explicit" /\ out.matched_rule = f.product_id
                   ELSE IF RulesContaining(t) # {}
                   THEN /\ out.match_type = "category"
                        /\ out.matched_rule = f.category_rules[First(RulesContaining(t))].key
                   ELSE /\ out.match_type = "none"
                        /\ out.matched_rule = None
                        /\ out.recommendations = <<>>

\* a debug answer for an id that two category rules with different lists
\* match, resolved from the first, with an entry of the backfill
C25_Witness ==
    \E t \in Threads :
        /\ DebugAnswered(t)
        /\ frame[t].response.match_type = "category"
        /\ Cardinality(RulesContaining(t)) = 2
        /\ \E i, j \in RulesContaining(t) :
              frame[t].category_rules[i].val # frame[t].category_rules[j].val
        /\ Len(frame[t].response.recommendations) > frame[t].n_raw
        /\ frame[t].n_raw >= 1


\* ---------------------------------------------------------------------------
\* C26
\* ---------------------------------------------------------------------------

\* the step in which a refresh attempt of thread 1 fails on a non-empty cache
FailedRefreshOnCache ==
    /\ frame[1].pc = "fetch"
    /\ frame'[1].pc # "fetch"
    /\ ~remote.up
    /\ has_cache(_RULES_CACHE)

\* the step in which a successful refresh of thread 1 is stored
RefreshStored ==
    /\ frame[1].pc = "store"
    /\ frame'[1].pc # "store"
    /\ frame[1].source = "remote"

\* C26: in remote mode a refresh attempt that fails while the cache holds a
\* non-empty rule set hands the caller the cached explicit map and category
\* rules, leaves the cached rules, the cached fetched_at and the global pool
\* as they were, and records the failure in last_error; a successful refresh
\* resets last_error to None.
C26_FailedRefreshKeepsCache ==
    [][ /\ FailedRefreshOnCache =>
            /\ frame'[1].pc \in {"lookup", "debug_lookup", "done"}
            /\ frame'[1].explicit_map = _RULES_CACHE.explicit_map
            /\ frame'[1].category_rules = _RULES_CACHE.category_rules
            /\ _RULES_CACHE'.explicit_map = _RULES_CACHE.explicit_map
            /\ _RULES_CACHE'.category_rules = _RULES_CACHE.category_rules
            /\ _RULES_CACHE'.fetched_at = _RULES_CACHE.fetched_at
            /\ _RULES_CACHE'.source = _RULES_CACHE.source
            /\ _GLOBAL_REC_BY_TYPE' = _GLOBAL_REC_BY_TYPE
            /\ _RULES_CACHE'.last_error = FetchError
        /\ RefreshStored => _RULES_CACHE'.last_error = None ]_vars

\* a failed refresh has answered a request from a non-empty cache that an
\* earlier successful refresh had filled, and the cache is stale by now
C26_Witness ==
    /\ frame[1].pc = "lookup"
    /\ _RULES_CACHE.last_error = FetchError
    /\ _RULES_CACHE.source = "remote"
    /\ has_cache(_RULES_CACHE)
    /\ frame[1].explicit_map = _RULES_CACHE.explicit_map
    /\ clock - _RULES_CACHE.fetched_at >= CSV_REFRESH_SECONDS


\* ---------------------------------------------------------------------------
\* C27
\* ---------------------------------------------------------------------------

\* the rows of the fixer's table other than row n that hold the pair
HoldersOf(pid, rid, n) ==
    {m \in 1..Len(autofix.rows) :
        m # n /\ Strip(autofix.rows[m].pid) = pid /\ Strip(autofix.rows[m].rid) = rid}

\* C27: at every point of an auto-fix run, the pair a replacement has
\* created is held by no other row of the table, original or itself replaced
\* earlier, and no replacement is the row's own source product.
C27_NoDuplicateNoSelf ==
    \A k \in 1..Len(autofix.changes) :
        LET change == autofix.changes[k]
        IN  /\ HoldersOf(change[2], change[4], change[1] - 1) = {}
            /\ change[4] # change[2]

\* two rows holding the same mismatching pair have both been replaced, and a
\* third row of the same product holds a recommendation of its own
C27_Witness ==
    /\ autofix.pc = "done"
    /\ Len(autofix.changes) = 2
    /\ autofix.changes[1][2] = autofix.changes[2][2]
    /\ autofix.changes[1][3] = autofix.changes[2][3]
    /\ autofix.changes[1][4] # autofix.changes[2][4]
    /\ \E m \in 1..Len(autofix.rows) :
          /\ Strip(autofix.rows[m].pid) = autofix.changes[1][2]
          /\ \A k \in 1..2 : autofix.changes[k][1] - 1 # m


\* ---------------------------------------------------------------------------
\* C28
\* ---------------------------------------------------------------------------

\* C28: the replacement pick_replacement returns for a row is a function of
\* its arguments: for the source, original recommendation, existing
\* recommendations, verified candidates and global candidates of the row at
\* hand there is one value the call can return, also when several verified
\* candidates tie for the highest positive score.
C28_ReplacementIsFunction ==
    (autofix.pc = "rows" /\ autofix.idx <= Len(autofix.rows))
        => Cardinality(replacement_choices(autofix, autofix.idx)) <= 1


\* ---------------------------------------------------------------------------
\* C29
\* ---------------------------------------------------------------------------

\* the pool types the call has not used yet
UnusedPoolTypes(f) == DictKeys(_GLOBAL_REC_BY_TYPE) \ f.seen_types

\* the call returns
ConstraintsTerminate == <>(frame[1].pc = "returned")

\* an iteration of the any-type loop ends the loop, leaving the selection as
\* it is, or adds one entry of a pool type not used before
AnyBackfillProgress ==
    [][ frame[1].pc = "any" =>
          \/ /\ frame'[1].pc = "returned"
             /\ frame'[1].selected = frame[1].selected
          \/ /\ frame'[1].pc = "any"
             /\ Len(frame'[1].selected) = Len(frame[1].selected) + 1
             /\ \E rec_type \in UnusedPoolTypes(frame[1]) :
                   /\ frame'[1].seen_types = frame[1].seen_types \cup {rec_type}
                   /\ \E i \in 1..Len(_GLOBAL_REC_BY_TYPE) :
                         /\ _GLOBAL_REC_BY_TYPE[i].key = rec_type
                         /\ frame'[1].selected[Len(frame'[1].selected)].id
                               \in Range(_GLOBAL_REC_BY_TYPE[i].val)
             /\ Cardinality(UnusedPoolTypes(frame'[1]))
                   < Cardinality(UnusedPoolTypes(frame[1])) ]_vars

\* a result of fewer than 3 entries is returned only when the pool has no
\* further candidate of an unused type
ShortOnlyWhenExhausted ==
    [](\A t \in Threads :
          (frame[t].pc = "returned" /\ Len(frame[t].selected) < PER_PRODUCT_RECOMMENDATION_LIMIT)
             => _pick_global_candidate_any(type_of(frame[t].product_id),
                                           brand_of(frame[t].product_id),
                                           frame[t].selected_ids,
                                           frame[t].seen_types)[1] = "")

\* C29: _apply_recommendation_constraints terminates for every source, raw
\* list and pool; each iteration of the final any-type loop either adds an
\* entry of a type not used before or ends the loop, so the loop runs at most
\* once per pool type, and fewer than 3 entries are returned when the pool is
\* empty or exhausted.
C29_ConstraintsTerminate ==
    ConstraintsTerminate /\ AnyBackfillProgress /\ ShortOnlyWhenExhausted

\* a source without desired types and with no raw recommendation got one
\* entry from each of the two pool types and returned these two
C29_Witness ==
    /\ frame[1].pc = "returned"
    /\ RUNTIME_COMPLEMENTARY_TYPES(type_of(frame[1].product_id)) = <<>>
    /\ frame[1].recommendations = <<>>
    /\ Len(frame[1].selected) = 2
    /\ Cardinality(DictKeys(_GLOBAL_REC_BY_TYPE)) = 2


\* ---------------------------------------------------------------------------
\* C30
\* ---------------------------------------------------------------------------

\* a detected change is pending
Pending == watch.pending_change_since # Unset

\* the step is a validation or a 'CSV is missing' report of the polling loop
Reports == watch'.reports # watch.reports

\* the step detects a signature change
Detects ==
    /\ watch.pc = "poll"
    /\ watch'.pc = "settle"
    /\ file_signature(csv_stat) # watch.previous

\* a report happens only while a change has been pending for the settle
\* period, and clears the pending state; outside reports, past the start,
\* nothing is validated
ReportOnlyWhilePending ==
    [][ /\ Reports =>
            /\ Pending
            /\ elapsed(watch) >= watch.settle
            /\ watch'.pending_change_since = Unset
            /\ watch'.reports = watch.reports + 1
            /\ watch'.last.changes >= 1
        /\ (watch.pc # "start" /\ ~Reports) => watch'.last = watch.last ]_vars

\* a change detected while one is pending restarts the settle window
FurtherChangeRestarts ==
    [][ (Detects /\ Pending) => watch'.pending_change_since = Since(0) ]_vars

\* every pending change is followed by a report, unless the loop is stopped
EveryChangeReported == Pending ~> (~Pending \/ watch.pc = "stopped")

\* from some point on the file's signature stays as it is
FileSettles == <>[][UNCHANGED csv_stat]_vars

====
